---- MODULE Spec2Model ----
(***************************************************************************)
(* Learning-Toolproj: the result cache and the processing pipeline         *)
(* (controllers/learning.controller.js, utils/cache.js), the transcript    *)
(* service, the AI service's output normalisation and the request          *)
(* validation middleware.                                                  *)
(*                                                                         *)
(* A JavaScript string is modelled as a sequence of characters, each       *)
(* character a one-character TLA+ string; the three non-ASCII characters   *)
(* of transcript.service.js line 63 are written by code point ("U+00E2",   *)
(* "U+2122", "U+00AA"), and so are the backtick ("U+0060") and the bullet  *)
(* ("U+2022").                                                             *)
(***************************************************************************)
EXTENDS Integers, Sequences, FiniteSets, TLC

VARIABLES
    fnPc,       \* position of the pure-function harness: "in" | "out" | "off"
    fnArg,      \* the argument handed to the function under check
    fnRes,      \* what the function returned
    env,        \* process.env: CACHE_TTL, GEMINI_API_KEY, NODE_ENV
    model,      \* AIService.model: null until initialize() has built the client
    now,        \* Date.now(), in milliseconds since the process started
    nextCheck,  \* when node-cache's check timer is due
    cache,      \* NodeCache's data: key -> [v: the value, t: its expiry time]
    req,        \* the requests in flight: each one's position and locals
    received,   \* the number of requests received so far
    cacheOp     \* the last call made on CacheManager directly, and its result

fnVars == <<fnPc, fnArg, fnRes>>

serverVars == <<env, model, now, nextCheck, cache, req, received, cacheOp>>

vars == <<fnPc, fnArg, fnRes, env, model, now, nextCheck, cache, req, received, cacheOp>>

(***************************************************************************)
(* Strings                                                                 *)
(***************************************************************************)

\* The value JavaScript calls null / undefined.
Null == [type |-> "null"]

\* JavaScript values whose type the code tests: a string carries its
\* characters, a number its value.
Str(s) == [type |-> "string", s |-> s]

Num(n) == [type |-> "number", n |-> n]

\* The value of a property the request body does not have.
Undefined == [type |-> "undefined"]

\* The number NaN.
NaN == [type |-> "NaN"]

\* !v of JavaScript for the values above.
Falsy(v) ==
    \/ v.type \in {"null", "undefined", "NaN"}
    \/ v.type = "string" /\ v.s = <<>>
    \/ v.type = "number" /\ v.n = 0
    \/ v.type = "boolean" /\ ~v.b

\* a || b
OrElse(a, b) == IF Falsy(a) THEN b ELSE a

\* true / false
Bool(b) == [type |-> "boolean", b |-> b]

\* An array and its elements.
Arr(items) == [type |-> "array", items |-> items]

\* An object: fields maps each property name (a string) to its value.
Obj(fields) == [type |-> "object", fields |-> fields]

\* Array.isArray(v)
IsArray(v) == v.type = "array"

\* v.name: the property's value, undefined when v is an object without it or
\* a primitive. (Reading a property of null or undefined throws: the callers
\* test CanReadProperty first.)
Prop(v, name) ==
    IF v.type = "object" /\ name \in DOMAIN v.fields THEN v.fields[name]
    ELSE IF v.type = "array" /\ name = <<"l", "e", "n", "g", "t", "h">> THEN Num(Len(v.items))
    ELSE IF v.type = "string" /\ name = <<"l", "e", "n", "g", "t", "h">> THEN Num(Len(v.s))
    ELSE Undefined

CanReadProperty(v) == v.type \notin {"null", "undefined"}

\* typeof v === 'string'
IsString(v) == v.type = "string"

\* \s of a JavaScript regular expression (the ASCII members).
Whitespace == {" ", "\t", "\n", "\r"}

\* The characters the regular expression dot does not match.
LineTerminators == {"\n", "\r"}

\* String.prototype.substring(from) with a 1-based index: the tail from i on.
Tail_(s, i) == SubSeq(s, i, Len(s))

\* Whether pattern p occurs in s starting at (1-based) position i.
MatchesAt(s, p, i) ==
    /\ i >= 1
    /\ i + Len(p) - 1 <= Len(s)
    /\ SubSeq(s, i, i + Len(p) - 1) = p

\* String.prototype.includes
Includes(s, p) == \E i \in 1..(Len(s) + 1) : MatchesAt(s, p, i)

\* String.prototype.trim
RECURSIVE TrimStart(_)
TrimStart(s) ==
    IF s # <<>> /\ Head(s) \in Whitespace THEN TrimStart(Tail(s)) ELSE s

RECURSIVE TrimEnd(_)
TrimEnd(s) ==
    IF s # <<>> /\ s[Len(s)] \in Whitespace
    THEN TrimEnd(SubSeq(s, 1, Len(s) - 1))
    ELSE s

Trim(s) == TrimEnd(TrimStart(s))

(***************************************************************************)
(* TranscriptService.cleanTranscript                                       *)
(***************************************************************************)

\* .replace(/\s+/g, ' '): every maximal run of whitespace becomes one space.
RECURSIVE CollapseWhitespace(_)
CollapseWhitespace(s) ==
    IF s = <<>> THEN <<>>
    ELSE IF Head(s) \in Whitespace
         THEN <<" ">> \o CollapseWhitespace(TrimStart(s))
         ELSE <<Head(s)>> \o CollapseWhitespace(Tail(s))

\* The position of the first close in s at or after i with no line
\* terminator before it (the lazy .*? followed by the closing character);
\* 0 when there is none.
RECURSIVE LazyClose(_, _, _)
LazyClose(s, close, i) ==
    IF i > Len(s) THEN 0
    ELSE IF s[i] = close THEN i
    ELSE IF s[i] \in LineTerminators THEN 0
    ELSE LazyClose(s, close, i + 1)

\* .replace(/\[.*?\]/g, '') and .replace(/\(.*?\)/g, ''): scanning left to
\* right, an opening character with a closing one after it is removed with
\* everything up to the first such closing character; the scan resumes
\* after the match.
RECURSIVE StripDelimited(_, _, _)
StripDelimited(s, open, close) ==
    IF s = <<>> THEN <<>>
    ELSE IF Head(s) = open /\ LazyClose(s, close, 2) # 0
         THEN StripDelimited(Tail_(s, LazyClose(s, close, 2) + 1), open, close)
         ELSE <<Head(s)>> \o StripDelimited(Tail(s), open, close)

\* The three characters of the regular expression of line 63.
NoteMark == <<"U+00E2", "U+2122", "U+00AA">>

\* .replace(/<NoteMark>/g, ''): every non-overlapping occurrence, left to right.
RECURSIVE RemoveAll(_, _)
RemoveAll(s, p) ==
    IF s = <<>> THEN <<>>
    ELSE IF MatchesAt(s, p, 1)
         THEN RemoveAll(Tail_(s, Len(p) + 1), p)
         ELSE <<Head(s)>> \o RemoveAll(Tail(s), p)

cleanTranscript(text) ==
    Trim(
        RemoveAll(
            StripDelimited(
                StripDelimited(CollapseWhitespace(text), "[", "]"),
                "(", ")"),
            NoteMark))

(***************************************************************************)
(* Harness for cleanTranscript: the text is any string over CleanAlphabet  *)
(* of at most MaxCleanLen characters.                                      *)
(***************************************************************************)

MaxCleanLen == 6

CleanAlphabet == {"a", " ", "[", "]", "(", ")", "U+00E2", "U+2122", "U+00AA"}

\* Every string over alphabet of at most n characters.
StringsUpTo(alphabet, n) == UNION {[1..k -> alphabet] : k \in 0..n}

\* The harness of a function runs without the server.
ServerOff ==
    /\ env = Null
    /\ model = Null
    /\ now = 0
    /\ nextCheck = 0
    /\ cache = <<>>
    /\ req = <<>>
    /\ received = 0
    /\ cacheOp = Null

FnInit(args) ==
    /\ fnPc = "in"
    /\ fnArg \in args
    /\ fnRes = Null
    /\ ServerOff

CleanInit == FnInit(StringsUpTo(CleanAlphabet, MaxCleanLen))

CleanCall ==
    /\ fnPc = "in"
    /\ fnPc' = "out"
    /\ fnRes' = cleanTranscript(fnArg)
    /\ UNCHANGED <<fnArg, serverVars>>

SpecClean == CleanInit /\ [][CleanCall]_vars

\* C5: cleanTranscript is idempotent: cleaning the cleaned text gives the
\* cleaned text again.
C5_CleanIdempotent ==
    fnPc = "out" => cleanTranscript(fnRes) = fnRes


(***************************************************************************)
(* extractVideoId (learning.controller.js)                                 *)
(***************************************************************************)

\* [a-zA-Z0-9_-]
IdChars == {"a", "b", "c", "d", "e", "f", "g", "h", "i", "j", "k", "l", "m", "n", "o", "p", "q", "r", "s", "t", "u", "v", "w", "x", "y", "z", "A", "B", "C", "D", "E", "F", "G", "H", "I", "J", "K", "L", "M", "N", "O", "P", "Q", "R", "S", "T", "U", "V", "W", "X", "Y", "Z", "0", "1", "2", "3", "4", "5", "6", "7", "8", "9", "_", "-"}

\* {11} of both patterns
ID_LENGTH == 11

\* youtube.com/watch?v=
WatchMarker == <<"y", "o", "u", "t", "u", "b", "e", ".", "c", "o", "m", "/", "w", "a", "t", "c", "h", "?", "v", "=">>

\* youtu.be/
ShortMarker == <<"y", "o", "u", "t", "u", ".", "b", "e", "/">>

\* youtube.com/embed/
EmbedMarker == <<"y", "o", "u", "t", "u", "b", "e", ".", "c", "o", "m", "/", "e", "m", "b", "e", "d", "/">>

\* The alternatives of the first pattern, in the order they are written.
UrlMarkers == <<WatchMarker, ShortMarker, EmbedMarker>>

\* ([a-zA-Z0-9_-]{11}) at position i of s.
IdRunAt(s, i) ==
    /\ i >= 1
    /\ i + ID_LENGTH - 1 <= Len(s)
    /\ \A j \in i..(i + ID_LENGTH - 1) : s[j] \in IdChars

\* The first pattern at position i: one of the markers, then the identifier.
UrlPatternAt(s, i) ==
    \E m \in 1..Len(UrlMarkers) :
        MatchesAt(s, UrlMarkers[m], i) /\ IdRunAt(s, i + Len(UrlMarkers[m]))

\* match[1] of the first pattern: the leftmost position the pattern matches
\* at, the first alternative matching there, the identifier after it.
UrlPatternCapture(s) ==
    LET i == CHOOSE k \in 1..Len(s) :
                 UrlPatternAt(s, k) /\ \A h \in 1..(k - 1) : ~UrlPatternAt(s, h)
        m == CHOOSE k \in 1..Len(UrlMarkers) :
                 /\ MatchesAt(s, UrlMarkers[k], i)
                 /\ IdRunAt(s, i + Len(UrlMarkers[k]))
                 /\ \A h \in 1..(k - 1) :
                        ~(MatchesAt(s, UrlMarkers[h], i) /\ IdRunAt(s, i + Len(UrlMarkers[h])))
        from == i + Len(UrlMarkers[m])
    IN  SubSeq(s, from, from + ID_LENGTH - 1)

\* A variant of the second pattern without its anchors: an identifier run
\* anywhere in the string.
BarePatternUnanchored(s) == \E i \in 1..Len(s) : IdRunAt(s, i)

\* The second pattern, /^([a-zA-Z0-9_-]{11})$/: the whole string is an identifier.
BarePatternMatches(s) == Len(s) = ID_LENGTH /\ IdRunAt(s, 1)

\* extractVideoId(url): a string of 11 characters, or Null. url.match on a
\* value that is no string throws, and the catch returns null.
extractVideoId(url) ==
    IF ~IsString(url) THEN Null
    ELSE IF \E i \in 1..Len(url.s) : UrlPatternAt(url.s, i)
         THEN Str(UrlPatternCapture(url.s))
    ELSE IF BarePatternMatches(url.s) THEN Str(url.s)
    ELSE Null

(***************************************************************************)
(* Harness for extractVideoId: the url is a prefix, then a marker, then an *)
(* identifier candidate, then a suffix; or a value that is no string.      *)
(***************************************************************************)

UrlPrefixes ==
    { <<>>, <<"h", "t", "t", "p", "s", ":", "/", "/">>, <<"h", "t", "t", "p", "s", ":", "/", "/", "w", "w", "w", ".">>, <<"h", "t", "t", "p", ":", "/", "/", "m", ".">>,
      <<"h", "t", "t", "p", "s", ":", "/", "/", "e", "x", "a", "m", "p", "l", "e", ".", "c", "o", "m", "/", "?", "u", "=">>, <<"h", "t", "t", "p", "s", ":", "/", "/", "n", "o", "t">> }

OtherMarkers == { <<>>, <<"y", "o", "u", "t", "u", "b", "e", ".", "c", "o", "m", "/", "v", "/">>, <<"v", "i", "m", "e", "o", ".", "c", "o", "m", "/">>, <<"y", "o", "u", "t", "u", "b", "e", ".", "c", "o", "m", "/", "w", "a", "t", "c", "h", "?", "l", "i", "s", "t", "=">> }

IdCandidates ==
    { <<"d", "Q", "w", "4", "w", "9", "W", "g", "X", "c", "Q">>, <<"a", "-", "b", "_", "c", "1", "d", "2", "e", "3", "f">>, <<"d", "Q", "w", "4", "w", "9", "W", "g", "X", "c">>, <<"d", "Q", "w", "4", "w", "9", "W", "g", "X", "c", "Q", "8">>,
      <<"d", "Q", "w", "4", "w", "9", ".", "g", "X", "c", "Q">>, <<>> }

UrlSuffixes == { <<>>, <<"&", "t", "=", "4", "2", "s">>, <<"?", "s", "i", "=", "x">> }

UrlParts ==
    [ prefix : UrlPrefixes,
      marker : {UrlMarkers[m] : m \in 1..Len(UrlMarkers)} \cup OtherMarkers,
      id     : IdCandidates,
      suffix : UrlSuffixes ]

\* The url the parts spell.
UrlOf(parts) == Str(parts.prefix \o parts.marker \o parts.id \o parts.suffix)

ExtractInit == FnInit(UrlParts \cup {Null, Num(42)})

ExtractCall ==
    /\ fnPc = "in"
    /\ fnPc' = "out"
    /\ fnRes' = extractVideoId(IF fnArg \in UrlParts THEN UrlOf(fnArg) ELSE fnArg)
    /\ UNCHANGED <<fnArg, serverVars>>

SpecExtract == ExtractInit /\ [][ExtractCall]_vars

IsIdentifier(s) == Len(s) = ID_LENGTH /\ \A j \in 1..Len(s) : s[j] \in IdChars

\* The url carries one of the three shapes the first pattern names.
HasUrlMarker(s) == \E m \in 1..Len(UrlMarkers) : Includes(s, UrlMarkers[m])

\* C6: extractVideoId returns the identifier of a watch?v=, youtu.be/ or
\* embed/ url and of a bare identifier; it returns null for a url that
\* carries none of the three shapes and is no bare identifier, and for a
\* value that is no string; whatever it returns is 11 characters of
\* [a-zA-Z0-9_-].
C6_ExtractVideoId ==
    fnPc = "out" =>
        /\ fnRes # Null => IsString(fnRes) /\ IsIdentifier(fnRes.s)
        /\ fnArg \notin UrlParts => fnRes = Null
        /\ fnArg \in UrlParts =>
            /\ ( /\ \E m \in 1..Len(UrlMarkers) : fnArg.marker = UrlMarkers[m]
                 /\ IsIdentifier(fnArg.id) )
               => fnRes = Str(fnArg.id)
            /\ ( /\ fnArg.prefix = <<>> /\ fnArg.marker = <<>> /\ fnArg.suffix = <<>>
                 /\ IsIdentifier(fnArg.id) )
               => fnRes = Str(fnArg.id)
            /\ ( /\ ~HasUrlMarker(UrlOf(fnArg).s)
                 /\ ~IsIdentifier(UrlOf(fnArg).s) )
               => fnRes = Null

\* C6 at work: an identifier taken out of a watch url that goes on after it,
\* and a url of another site answered with null.
C6_Witness ==
    /\ fnPc = "out"
    /\ fnArg \in UrlParts
    /\ \/ /\ fnArg.marker = WatchMarker
          /\ fnArg.suffix # <<>>
          /\ fnRes = Str(<<"d", "Q", "w", "4", "w", "9", "W", "g", "X", "c", "Q">>)
       \/ /\ fnArg.marker = <<"v", "i", "m", "e", "o", ".", "c", "o", "m", "/">>
          /\ IsIdentifier(fnArg.id)
          /\ fnRes = Null

(***************************************************************************)
(* Validation middleware (validateVideoUrl, validateTranscript)            *)
(***************************************************************************)

\* res.status(status).json({success: false, error})
ErrorResponse(status, error) ==
    [status |-> status, json |-> [success |-> FALSE, error |-> error]]

\* What a middleware did: called next(), or answered.
CallNext == [next |-> TRUE, res |-> Null]

Answer(res) == [next |-> FALSE, res |-> res]

\* 'Video URL is required'
MsgUrlRequired == <<"V", "i", "d", "e", "o", " ", "U", "R", "L", " ", "i", "s", " ", "r", "e", "q", "u", "i", "r", "e", "d">>

\* 'Video URL must be a string'
MsgUrlNotString == <<"V", "i", "d", "e", "o", " ", "U", "R", "L", " ", "m", "u", "s", "t", " ", "b", "e", " ", "a", " ", "s", "t", "r", "i", "n", "g">>

\* 'Invalid YouTube URL format. Please provide a valid YouTube video link.'
MsgUrlFormat == <<"I", "n", "v", "a", "l", "i", "d", " ", "Y", "o", "u", "T", "u", "b", "e", " ", "U", "R", "L", " ", "f", "o", "r", "m", "a", "t", ".", " ", "P", "l", "e", "a", "s", "e", " ", "p", "r", "o", "v", "i", "d", "e", " ", "a", " ", "v", "a", "l", "i", "d", " ", "Y", "o", "u", "T", "u", "b", "e", " ", "v", "i", "d", "e", "o", " ", "l", "i", "n", "k", ".">>

\* 'Transcript is required'
MsgTranscriptRequired == <<"T", "r", "a", "n", "s", "c", "r", "i", "p", "t", " ", "i", "s", " ", "r", "e", "q", "u", "i", "r", "e", "d">>

\* 'Transcript must be a string'
MsgTranscriptNotString == <<"T", "r", "a", "n", "s", "c", "r", "i", "p", "t", " ", "m", "u", "s", "t", " ", "b", "e", " ", "a", " ", "s", "t", "r", "i", "n", "g">>

\* 'Transcript is too short. Please provide at least 100 characters of content.'
MsgTranscriptTooShort == <<"T", "r", "a", "n", "s", "c", "r", "i", "p", "t", " ", "i", "s", " ", "t", "o", "o", " ", "s", "h", "o", "r", "t", ".", " ", "P", "l", "e", "a", "s", "e", " ", "p", "r", "o", "v", "i", "d", "e", " ", "a", "t", " ", "l", "e", "a", "s", "t", " ", "1", "0", "0", " ", "c", "h", "a", "r", "a", "c", "t", "e", "r", "s", " ", "o", "f", " ", "c", "o", "n", "t", "e", "n", "t", ".">>

\* 'Transcript is too long. Please limit to 50,000 characters.'
MsgTranscriptTooLong == <<"T", "r", "a", "n", "s", "c", "r", "i", "p", "t", " ", "i", "s", " ", "t", "o", "o", " ", "l", "o", "n", "g", ".", " ", "P", "l", "e", "a", "s", "e", " ", "l", "i", "m", "i", "t", " ", "t", "o", " ", "5", "0", ",", "0", "0", "0", " ", "c", "h", "a", "r", "a", "c", "t", "e", "r", "s", ".">>

\* s with p removed from its front when it starts with p (an optional group).
SkipOptional(s, p) == IF MatchesAt(s, p, 1) THEN Tail_(s, Len(p) + 1) ELSE s

\* /^(https?:\/\/)?(www\.)?(youtube\.com|youtu\.be)\/.+/ tested on s.
YoutubeRegexTest(s) ==
    LET afterScheme == SkipOptional(SkipOptional(s, <<"h", "t", "t", "p", ":", "/", "/">>), <<"h", "t", "t", "p", "s", ":", "/", "/">>)
        afterWww    == SkipOptional(afterScheme, <<"w", "w", "w", ".">>)
        hosts       == {<<"y", "o", "u", "t", "u", "b", "e", ".", "c", "o", "m">>, <<"y", "o", "u", "t", "u", ".", "b", "e">>}
    IN  \E h \in hosts :
            /\ MatchesAt(afterWww, h \o <<"/">>, 1)
            /\ Len(afterWww) >= Len(h) + 2
            /\ afterWww[Len(h) + 2] \notin LineTerminators

validateVideoUrl(videoUrl) ==
    IF Falsy(videoUrl) THEN Answer(ErrorResponse(400, MsgUrlRequired))
    ELSE IF ~IsString(videoUrl) THEN Answer(ErrorResponse(400, MsgUrlNotString))
    ELSE IF ~YoutubeRegexTest(videoUrl.s) THEN Answer(ErrorResponse(400, MsgUrlFormat))
    ELSE CallNext

\* transcript.trim().length < 100
MIN_TRANSCRIPT_LENGTH == 100

\* transcript.length > 50000
MAX_TRANSCRIPT_LENGTH == 50000

\* The minimum check with <= in the place of <.
TooShortOffByOne(s) == Len(Trim(s)) <= MIN_TRANSCRIPT_LENGTH

\* The minimum check of validateTranscript.
TooShort(s) == Len(Trim(s)) < MIN_TRANSCRIPT_LENGTH

\* The maximum check of validateTranscript.
TooLong(s) == Len(s) > MAX_TRANSCRIPT_LENGTH

validateTranscript(transcript) ==
    IF Falsy(transcript) THEN Answer(ErrorResponse(400, MsgTranscriptRequired))
    ELSE IF ~IsString(transcript) THEN Answer(ErrorResponse(400, MsgTranscriptNotString))
    ELSE IF TooShort(transcript.s) THEN Answer(ErrorResponse(400, MsgTranscriptTooShort))
    ELSE IF TooLong(transcript.s) THEN Answer(ErrorResponse(400, MsgTranscriptTooLong))
    ELSE CallNext

(***************************************************************************)
(* Harness for validateTranscript: the transcript is lead spaces, then   *)
(* body letters, then trail spaces, the lengths around the two limits; *)
(* or a value that is no string.                                           *)
(***************************************************************************)

MaxPad == 2

BodyLengths ==
    {0, 1}
    \cup (MIN_TRANSCRIPT_LENGTH - 2)..(MIN_TRANSCRIPT_LENGTH + 1)
    \cup (MAX_TRANSCRIPT_LENGTH - 2)..(MAX_TRANSCRIPT_LENGTH + 1)

TranscriptParts == [lead : 0..MaxPad, body : BodyLengths, trail : 0..MaxPad]

\* n times the character c.
Repeat(c, n) == [i \in 1..n |-> c]

TranscriptOf(parts) ==
    Str(Repeat(" ", parts.lead) \o Repeat("a", parts.body) \o Repeat(" ", parts.trail))

ValidateInit == FnInit(TranscriptParts \cup {Undefined, Null, Num(42)})

\* router.post('/process-transcript', validateTranscript, processTranscript):
\* the controller is the next handler, and runs when the middleware calls next().
ValidateCall ==
    /\ fnPc = "in"
    /\ fnPc' = "out"
    /\ fnRes' = validateTranscript(IF fnArg \in TranscriptParts THEN TranscriptOf(fnArg) ELSE fnArg)
    /\ UNCHANGED <<fnArg, serverVars>>

SpecValidate == ValidateInit /\ [][ValidateCall]_vars

\* The number of characters of the transcript the harness built.
ArgLength == fnArg.lead + fnArg.body + fnArg.trail

Rejected400 ==
    /\ ~fnRes.next
    /\ fnRes.res.status = 400
    /\ fnRes.res.json.success = FALSE

\* C7 as stated: a string transcript is accepted exactly when its length is
\* within [100, 50000], and is otherwise answered 400 with success:false.
C7_AcceptsByLength ==
    (fnPc = "out" /\ fnArg \in TranscriptParts) =>
        IF ArgLength >= MIN_TRANSCRIPT_LENGTH /\ ArgLength <= MAX_TRANSCRIPT_LENGTH
        THEN fnRes.next
        ELSE Rejected400

\* C7 as amended: a transcript is accepted exactly when it is a string with
\* at least 100 characters once the whitespace at its two ends is trimmed
\* and at most 50000 characters untrimmed; otherwise it is answered 400 with
\* success:false and the controller is not called. In particular 99
\* letters are rejected, 100 letters accepted, 50001 letters rejected.
C7_AcceptsByTrimmedLength ==
    fnPc = "out" =>
        /\ fnArg \notin TranscriptParts => Rejected400
        /\ fnArg \in TranscriptParts =>
              \* the letters are what is left once the spaces are trimmed
              IF /\ fnArg.body >= MIN_TRANSCRIPT_LENGTH
                 /\ ArgLength <= MAX_TRANSCRIPT_LENGTH
              THEN fnRes = CallNext
              ELSE Rejected400

\* C7 at work: 100 letters accepted, and 99 letters with a space before
\* them (100 characters) rejected.
C7_Witness ==
    /\ fnPc = "out"
    /\ fnArg \in TranscriptParts
    /\ \/ fnArg = [lead |-> 0, body |-> MIN_TRANSCRIPT_LENGTH, trail |-> 0] /\ fnRes.next
       \/ /\ fnArg = [lead |-> 1, body |-> MIN_TRANSCRIPT_LENGTH - 1, trail |-> 0]
          /\ Rejected400

(***************************************************************************)
(* JSON.parse, for the JSON the model is asked for: arrays, objects,       *)
(* strings (with the one-character escapes), integers, true, false, null.  *)
(* Fractions, exponents and \u escapes are not modelled.                   *)
(***************************************************************************)

Digits == <<"0", "1", "2", "3", "4", "5", "6", "7", "8", "9">>

IsDigit(c) == \E d \in 1..Len(Digits) : Digits[d] = c

DigitValue(c) == (CHOOSE d \in 1..Len(Digits) : Digits[d] = c) - 1

\* A thrown Error: its message.
Thrown(message) == [ok |-> FALSE, error |-> [message |-> message]]

\* A value returned.
Returned(v) == [ok |-> TRUE, v |-> v]

\* The message of the SyntaxError JSON.parse throws.
MsgSyntaxError == <<"U", "n", "e", "x", "p", "e", "c", "t", "e", "d", " ", "t", "o", "k", "e", "n", " ", "i", "n", " ", "J", "S", "O", "N">>

ParseFail == [ok |-> FALSE, v |-> Null, i |-> 0]

ParseOk(v, i) == [ok |-> TRUE, v |-> v, i |-> i]

RECURSIVE SkipWs(_, _)
SkipWs(s, i) ==
    IF i <= Len(s) /\ s[i] \in Whitespace THEN SkipWs(s, i + 1) ELSE i

\* The characters of a string literal from position i on, up to its closing quote.
RECURSIVE ParseStringChars(_, _, _)
ParseStringChars(s, i, acc) ==
    IF i > Len(s) THEN ParseFail
    ELSE IF s[i] = "\"" THEN ParseOk(Str(acc), i + 1)
    ELSE IF s[i] \in {"\n", "\r", "\t"} THEN ParseFail
    ELSE IF s[i] = "\\"
         THEN IF i + 1 > Len(s) THEN ParseFail
              ELSE IF s[i + 1] \in {"\"", "\\", "/"}
                   THEN ParseStringChars(s, i + 2, Append(acc, s[i + 1]))
              ELSE IF s[i + 1] = "n" THEN ParseStringChars(s, i + 2, Append(acc, "\n"))
              ELSE IF s[i + 1] = "t" THEN ParseStringChars(s, i + 2, Append(acc, "\t"))
              ELSE IF s[i + 1] = "r" THEN ParseStringChars(s, i + 2, Append(acc, "\r"))
              ELSE ParseFail
    ELSE ParseStringChars(s, i + 1, Append(acc, s[i]))

RECURSIVE ParseDigits(_, _, _)
ParseDigits(s, i, acc) ==
    IF i <= Len(s) /\ IsDigit(s[i])
    THEN ParseDigits(s, i + 1, acc * 10 + DigitValue(s[i]))
    ELSE ParseOk(Num(acc), i)

\* r is the parse of the digits of a number that does not start with 0.
AfterDigits(s, neg, r) ==
    IF r.i <= Len(s) /\ s[r.i] \in {".", "e", "E"} THEN ParseFail
    ELSE ParseOk(Num(IF neg THEN 0 - r.v.n ELSE r.v.n), r.i)

\* (0|[1-9][0-9]*) at position first, after the sign if there is one.
ParseUnsigned(s, neg, first) ==
    IF first > Len(s) \/ ~IsDigit(s[first]) THEN ParseFail
    ELSE IF s[first] = "0"
         THEN IF first + 1 <= Len(s) /\ (IsDigit(s[first + 1]) \/ s[first + 1] \in {".", "e", "E"})
              THEN ParseFail
              ELSE ParseOk(Num(0), first + 1)
    ELSE AfterDigits(s, neg, ParseDigits(s, first, 0))

\* -?(0|[1-9][0-9]*)
ParseNumber(s, i) == ParseUnsigned(s, s[i] = "-", IF s[i] = "-" THEN i + 1 ELSE i)

RECURSIVE ParseValue(_, _)
RECURSIVE ParseElements(_, _, _)
RECURSIVE ParseMembers(_, _, _)

\* After an element of an array: position j holds "]" or ",".
AtElementDelimiter(s, j, acc) ==
    IF j > Len(s) THEN ParseFail
    ELSE IF s[j] = "]" THEN ParseOk(Arr(acc), j + 1)
    ELSE IF s[j] = "," THEN ParseElements(s, SkipWs(s, j + 1), acc)
    ELSE ParseFail

\* r is the parse of an element, after the elements acc.
AfterElement(s, r, acc) ==
    IF ~r.ok THEN ParseFail
    ELSE AtElementDelimiter(s, SkipWs(s, r.i), Append(acc, r.v))

\* The elements of an array from position i on (i at an element), after acc.
ParseElements(s, i, acc) == AfterElement(s, ParseValue(s, i), acc)

\* After a member of an object: position j holds "}" or ",".
AtMemberDelimiter(s, j, acc) ==
    IF j > Len(s) THEN ParseFail
    ELSE IF s[j] = "}" THEN ParseOk(Obj(acc), j + 1)
    ELSE IF s[j] = "," THEN ParseMembers(s, SkipWs(s, j + 1), acc)
    ELSE ParseFail

\* r is the parse of the value of the member called name; a name given
\* twice keeps its last value.
AfterMemberValue(s, name, r, acc) ==
    IF ~r.ok THEN ParseFail
    ELSE AtMemberDelimiter(s, SkipWs(s, r.i), (name :> r.v) @@ acc)

\* After a member's name: position c holds ":".
AtColon(s, name, c, acc) ==
    IF c > Len(s) \/ s[c] # ":" THEN ParseFail
    ELSE AfterMemberValue(s, name, ParseValue(s, SkipWs(s, c + 1)), acc)

\* k is the parse of a member's name.
AfterMemberName(s, k, acc) ==
    IF ~k.ok THEN ParseFail ELSE AtColon(s, k.v.s, SkipWs(s, k.i), acc)

\* The members of an object from position i on (i at a name), after acc.
ParseMembers(s, i, acc) ==
    IF i > Len(s) \/ s[i] # "\"" THEN ParseFail
    ELSE AfterMemberName(s, ParseStringChars(s, i + 1, <<>>), acc)

\* After "[" or "{": position j holds the closing character of an empty
\* array or object, or the first element or member.
AfterOpen(s, open, j) ==
    IF open = "["
    THEN IF j <= Len(s) /\ s[j] = "]" THEN ParseOk(Arr(<<>>), j + 1)
         ELSE ParseElements(s, j, <<>>)
    ELSE IF j <= Len(s) /\ s[j] = "}" THEN ParseOk(Obj(<<>>), j + 1)
         ELSE ParseMembers(s, j, <<>>)

\* The value that starts at position i (no whitespace before it).
ParseValue(s, i) ==
    IF i > Len(s) THEN ParseFail
    ELSE IF s[i] = "\"" THEN ParseStringChars(s, i + 1, <<>>)
    ELSE IF s[i] \in {"[", "{"} THEN AfterOpen(s, s[i], SkipWs(s, i + 1))
    ELSE IF MatchesAt(s, <<"t", "r", "u", "e">>, i) THEN ParseOk(Bool(TRUE), i + 4)
    ELSE IF MatchesAt(s, <<"f", "a", "l", "s", "e">>, i) THEN ParseOk(Bool(FALSE), i + 5)
    ELSE IF MatchesAt(s, <<"n", "u", "l", "l">>, i) THEN ParseOk(Null, i + 4)
    ELSE IF IsDigit(s[i]) \/ s[i] = "-" THEN ParseNumber(s, i)
    ELSE ParseFail

\* r is the parse of the value of text: nothing but whitespace may follow it.
WholeText(text, r) ==
    IF r.ok /\ SkipWs(text, r.i) = Len(text) + 1
    THEN Returned(r.v)
    ELSE Thrown(MsgSyntaxError)

\* JSON.parse(text): the value, or the SyntaxError thrown.
JSONParse(text) == WholeText(text, ParseValue(text, SkipWs(text, 1)))

(***************************************************************************)
(* AIService.extractJSON                                                   *)
(***************************************************************************)

\* three backticks
Fence == <<"U+0060", "U+0060", "U+0060">>

\* three backticks, then json
FenceJsonTag == <<"U+0060", "U+0060", "U+0060", "j", "s", "o", "n">>

\* The least member of a non-empty set of integers, and the greatest.
MinOf(S) == CHOOSE k \in S : \A h \in S : k <= h

MaxOf(S) == CHOOSE k \in S : \A h \in S : k >= h

\* The positions from i on where p occurs in s.
Occurrences(s, p, i) == {k \in i..(Len(s) - Len(p) + 1) : MatchesAt(s, p, k)}

\* The first position at or after i where p occurs in s; 0 when there is none.
IndexFrom(s, p, i) ==
    IF Occurrences(s, p, i) = {} THEN 0 ELSE MinOf(Occurrences(s, p, i))

\* The last position where p occurs in s; 0 when there is none.
LastIndex(s, p) ==
    IF Occurrences(s, p, 1) = {} THEN 0 ELSE MaxOf(Occurrences(s, p, 1))

\* The start of the whitespace run that ends just before position f, not
\* before position b.
RECURSIVE WsRunStart(_, _, _)
WsRunStart(s, f, b) ==
    IF f > b /\ s[f - 1] \in Whitespace THEN WsRunStart(s, f - 1, b) ELSE f

\* content.match(/<opener>\s*([\s\S]*?)\s*<fence>/): group 1 of the leftmost
\* match, or no match. An opener is a fence itself, so when the leftmost
\* opener has no fence after it no later one has.
FenceMatch(s, opener) ==
    LET i == IndexFrom(s, opener, 1)
        b == SkipWs(s, i + Len(opener))
        f == IndexFrom(s, Fence, b)
    IN  IF i = 0 \/ f = 0 THEN [found |-> FALSE, group |-> <<>>]
        ELSE [found |-> TRUE, group |-> SubSeq(s, b, WsRunStart(s, f, b) - 1)]

\* content.match(/\[[\s\S]*\]/) and content.match(/\{[\s\S]*\}/): from the
\* first opening character to the last closing one after it.
GreedyMatch(s, open, close) ==
    LET i == IndexFrom(s, <<open>>, 1)
        j == LastIndex(s, <<close>>)
    IN  IF i = 0 \/ j < i THEN [found |-> FALSE, group |-> <<>>]
        ELSE [found |-> TRUE, group |-> SubSeq(s, i, j)]

\* 'Could not extract JSON from response'
MsgNoJson == <<"C", "o", "u", "l", "d", " ", "n", "o", "t", " ", "e", "x", "t", "r", "a", "c", "t", " ", "J", "S", "O", "N", " ", "f", "r", "o", "m", " ", "r", "e", "s", "p", "o", "n", "s", "e">>

\* The catch block of extractJSON: the first of the four matches that is
\* found is parsed, and what JSON.parse throws is thrown.
ExtractFromMatches(jsonFence, anyFence, arrayMatch, objectMatch) ==
    IF jsonFence.found THEN JSONParse(jsonFence.group)
    ELSE IF anyFence.found THEN JSONParse(anyFence.group)
    ELSE IF arrayMatch.found THEN JSONParse(arrayMatch.group)
    ELSE IF objectMatch.found THEN JSONParse(objectMatch.group)
    ELSE Thrown(MsgNoJson)

\* direct is JSON.parse(content).
ExtractAfterDirect(content, direct) ==
    IF direct.ok THEN direct
    ELSE ExtractFromMatches(
             FenceMatch(content, FenceJsonTag),
             FenceMatch(content, Fence),
             GreedyMatch(content, "[", "]"),
             GreedyMatch(content, "{", "}"))

extractJSON(content) == ExtractAfterDirect(content, JSONParse(content))

(***************************************************************************)
(* AIService.generateQuiz: from the model's text to the quiz               *)
(***************************************************************************)

\* String(n) for n >= 0.
RECURSIVE ToDecimal(_)
ToDecimal(n) ==
    IF n < 10 THEN <<Digits[n + 1]>>
    ELSE ToDecimal(n \div 10) \o <<Digits[(n % 10) + 1]>>

\* quiz.slice(0, 10) and the padding loop
QUIZ_LENGTH == 10

\* q.options.length === 4
OPTION_COUNT == 4

KeyId == <<"i", "d">>

KeyQuestion == <<"q", "u", "e", "s", "t", "i", "o", "n">>

KeyOptions == <<"o", "p", "t", "i", "o", "n", "s">>

KeyCorrectAnswer == <<"c", "o", "r", "r", "e", "c", "t", "A", "n", "s", "w", "e", "r">>

KeyExplanation == <<"e", "x", "p", "l", "a", "n", "a", "t", "i", "o", "n">>

\* {id, question, options, correctAnswer, explanation}
QuizEntry(id, question, options, correctAnswer, explanation) ==
    Obj((KeyId :> id) @@ (KeyQuestion :> question) @@ (KeyOptions :> options)
        @@ (KeyCorrectAnswer :> correctAnswer) @@ (KeyExplanation :> explanation))

\* ['Option A', 'Option B', 'Option C', 'Option D']
DefaultOptions ==
    Arr(<<Str(<<"O", "p", "t", "i", "o", "n", " ", "A">>), Str(<<"O", "p", "t", "i", "o", "n", " ", "B">>), Str(<<"O", "p", "t", "i", "o", "n", " ", "C">>), Str(<<"O", "p", "t", "i", "o", "n", " ", "D">>)>>)

\* The options kept as the model gave them: an array of four.
OptionsAccepted(options) == IsArray(options) /\ Len(options.items) = OPTION_COUNT

\* The correctAnswer of a normalised question.
NormalizedAnswer(q) == OrElse(Prop(q, KeyCorrectAnswer), Str(<<"A">>))

\* The callback of quiz.map: q is the element, index its 0-based position.
NormalizeQuestion(q, index) ==
    QuizEntry(
        Num(index + 1),
        OrElse(Prop(q, KeyQuestion), Str(<<"Q", "u", "e", "s", "t", "i", "o", "n", " ">> \o ToDecimal(index + 1))),
        IF OptionsAccepted(Prop(q, KeyOptions)) THEN Prop(q, KeyOptions) ELSE DefaultOptions,
        NormalizedAnswer(q),
        OrElse(Prop(q, KeyExplanation), Str(<<"E", "x", "p", "l", "a", "n", "a", "t", "i", "o", "n", " ", "b", "a", "s", "e", "d", " ", "o", "n", " ", "t", "r", "a", "n", "s", "c", "r", "i", "p", "t", " ", "c", "o", "n", "t", "e", "n", "t">>)))

\* The question the while loop pushes when the quiz holds n questions.
PaddingQuestion(n) ==
    QuizEntry(
        Num(n + 1),
        Str(<<"W", "h", "a", "t", " ", "i", "s", " ", "t", "h", "e", " ", "m", "a", "i", "n", " ", "t", "o", "p", "i", "c", " ", "d", "i", "s", "c", "u", "s", "s", "e", "d", "?">>),
        Arr(<<Str(<<"T", "o", "p", "i", "c", " ", "A">>), Str(<<"T", "o", "p", "i", "c", " ", "B">>), Str(<<"T", "o", "p", "i", "c", " ", "C">>), Str(<<"T", "o", "p", "i", "c", " ", "D">>)>>),
        Str(<<"A">>),
        Str(<<"B", "a", "s", "e", "d", " ", "o", "n", " ", "t", "r", "a", "n", "s", "c", "r", "i", "p", "t", " ", "a", "n", "a", "l", "y", "s", "i", "s">>))

\* 'Invalid quiz format'
MsgInvalidQuiz == <<"I", "n", "v", "a", "l", "i", "d", " ", "q", "u", "i", "z", " ", "f", "o", "r", "m", "a", "t">>

\* The TypeError of q.question for an element that is null.
MsgTypeError == <<"C", "a", "n", "n", "o", "t", " ", "r", "e", "a", "d", " ", "p", "r", "o", "p", "e", "r", "t", "i", "e", "s", " ", "o", "f", " ", "n", "u", "l", "l", " ", "(", "r", "e", "a", "d", "i", "n", "g", " ", "'", "q", "u", "e", "s", "t", "i", "o", "n", "'", ")">>

Min(a, b) == IF a <= b THEN a ELSE b

\* The padding loop and the last slice: mapped holds at most 10 questions.
PadQuiz(mapped) ==
    Returned(Arr(SubSeq(
        mapped \o [j \in 1..(QUIZ_LENGTH - Len(mapped)) |-> PaddingQuestion(Len(mapped) + j - 1)],
        1, QUIZ_LENGTH)))

\* quiz.map over the sliced array; q.question of a null element throws.
MapQuiz(sliced) ==
    IF \E i \in 1..Len(sliced) : ~CanReadProperty(sliced[i])
    THEN Thrown(MsgTypeError)
    ELSE PadQuiz([i \in 1..Len(sliced) |-> NormalizeQuestion(sliced[i], i - 1)])

\* parsed is what extractJSON returned or threw.
QuizFromParsed(parsed) ==
    IF ~parsed.ok THEN parsed
    ELSE IF ~IsArray(parsed.v) THEN Thrown(MsgInvalidQuiz)
    ELSE MapQuiz(SubSeq(parsed.v.items, 1, Min(QUIZ_LENGTH, Len(parsed.v.items))))

\* generateQuiz once the model has answered text: the quiz, or the error
\* thrown (the catch logs and rethrows it).
generateQuiz(text) == QuizFromParsed(extractJSON(Trim(text)))

(***************************************************************************)
(* Harness for generateQuiz: the model's text is a JSON array of count   *)
(* elements, the first ones drawn from QuizElements and the others well    *)
(* formed, bare or wrapped in prose or in a code fence; or an object; or   *)
(* no JSON at all.                                                         *)
(***************************************************************************)

\* How many leading elements of the array vary.
MaxVaried == 2

ElemValid == <<"{", "\"", "q", "u", "e", "s", "t", "i", "o", "n", "\"", ":", "\"", "q", "\"", ",", "\"", "o", "p", "t", "i", "o", "n", "s", "\"", ":", "[", "\"", "a", "\"", ",", "\"", "b", "\"", ",", "\"", "c", "\"", ",", "\"", "d", "\"", "]", ",", "\"", "c", "o", "r", "r", "e", "c", "t", "A", "n", "s", "w", "e", "r", "\"", ":", "\"", "B", "\"", ",", "\"", "e", "x", "p", "l", "a", "n", "a", "t", "i", "o", "n", "\"", ":", "\"", "e", "\"", "}">>

ElemEmpty == <<"{", "}">>

ElemTwoOptions == <<"{", "\"", "q", "u", "e", "s", "t", "i", "o", "n", "\"", ":", "\"", "q", "\"", ",", "\"", "o", "p", "t", "i", "o", "n", "s", "\"", ":", "[", "\"", "a", "\"", ",", "\"", "b", "\"", "]", ",", "\"", "c", "o", "r", "r", "e", "c", "t", "A", "n", "s", "w", "e", "r", "\"", ":", "\"", "C", "\"", "}">>

ElemAnswerE == <<"{", "\"", "q", "u", "e", "s", "t", "i", "o", "n", "\"", ":", "\"", "q", "\"", ",", "\"", "o", "p", "t", "i", "o", "n", "s", "\"", ":", "[", "\"", "a", "\"", ",", "\"", "b", "\"", ",", "\"", "c", "\"", ",", "\"", "d", "\"", "]", ",", "\"", "c", "o", "r", "r", "e", "c", "t", "A", "n", "s", "w", "e", "r", "\"", ":", "\"", "E", "\"", ",", "\"", "e", "x", "p", "l", "a", "n", "a", "t", "i", "o", "n", "\"", ":", "\"", "e", "\"", "}">>

ElemWrongTypes == <<"{", "\"", "q", "u", "e", "s", "t", "i", "o", "n", "\"", ":", "\"", "\"", ",", "\"", "o", "p", "t", "i", "o", "n", "s", "\"", ":", "\"", "a", "b", "c", "d", "\"", ",", "\"", "c", "o", "r", "r", "e", "c", "t", "A", "n", "s", "w", "e", "r", "\"", ":", "2", ",", "\"", "e", "x", "p", "l", "a", "n", "a", "t", "i", "o", "n", "\"", ":", "n", "u", "l", "l", "}">>

ElemNull == <<"n", "u", "l", "l">>

ElemString == <<"\"", "x", "\"">>

QuizElements ==
    {ElemValid, ElemEmpty, ElemTwoOptions, ElemAnswerE, ElemWrongTypes, ElemNull, ElemString}

QuizCounts == {0, 1, 2, QUIZ_LENGTH - 1, QUIZ_LENGTH, QUIZ_LENGTH + 1, QUIZ_LENGTH + 2}

QuizWrappers == {"bare", "prose", "fence", "object"}

QuizTexts ==
    [ count : QuizCounts,
      head  : UNION {[1..k -> QuizElements] : k \in 0..MaxVaried},
      wrap  : QuizWrappers ]

\* The elements joined with commas.
RECURSIVE JoinElements(_)
JoinElements(elems) ==
    IF elems = <<>> THEN <<>>
    ELSE IF Len(elems) = 1 THEN elems[1]
    ELSE elems[1] \o <<",">> \o JoinElements(Tail(elems))

\* The text the parts spell.
QuizTextOf(parts) ==
    LET n     == parts.count
        elems == [i \in 1..n |-> IF i <= Len(parts.head) THEN parts.head[i] ELSE ElemValid]
        array == <<"[">> \o JoinElements(elems) \o <<"]">>
    IN  CASE parts.wrap = "bare"   -> <<" ">> \o array \o <<"\n">>
          [] parts.wrap = "prose"  -> <<"H", "e", "r", "e", " ", "i", "s", " ", "t", "h", "e", " ", "q", "u", "i", "z", ":", " ">> \o array \o <<" ", "E", "n", "j", "o", "y", "!">>
          [] parts.wrap = "fence"  -> FenceJsonTag \o <<"\n">> \o array \o <<"\n">> \o Fence
          [] parts.wrap = "object" -> <<"{", "\"", "q", "u", "i", "z", "\"", ":">> \o array \o <<"}">>

QuizInit == FnInit({p \in QuizTexts : Len(p.head) <= p.count})

QuizCall ==
    /\ fnPc = "in"
    /\ fnPc' = "out"
    /\ fnRes' = generateQuiz(QuizTextOf(fnArg))
    /\ UNCHANGED <<fnArg, serverVars>>

SpecQuiz == QuizInit /\ [][QuizCall]_vars

AnswerLabels == {Str(<<"A">>), Str(<<"B">>), Str(<<"C">>), Str(<<"D">>)}

\* C4: whatever the model's text, a quiz generateQuiz returns has exactly 10
\* entries, each with exactly 4 options and a correctAnswer among A, B, C, D.
C4_QuizWellFormed ==
    (fnPc = "out" /\ fnRes.ok) =>
        /\ IsArray(fnRes.v)
        /\ Len(fnRes.v.items) = QUIZ_LENGTH
        /\ \A i \in 1..Len(fnRes.v.items) :
              LET q == fnRes.v.items[i]
              IN  /\ IsArray(Prop(q, KeyOptions))
                  /\ Len(Prop(q, KeyOptions).items) = OPTION_COUNT
                  /\ Prop(q, KeyCorrectAnswer) \in AnswerLabels

(***************************************************************************)
(* Harness for extractJSON: the content is a run of at most MaxPieces      *)
(* pieces: prose, an array, an object, a cut array, and code fences whose  *)
(* content is JSON or is not.                                              *)
(***************************************************************************)

\* How many pieces a content has at most.
MaxPieces == 3

PieceProse == <<"H", "e", "r", "e", ":", " ">>

PieceArray == <<"[", "1", "]">>

PieceObject == <<"{", "\"", "a", "\"", ":", "2", "}">>

PieceCutArray == <<"[", "3">>

PieceJsonFence == <<"U+0060", "U+0060", "U+0060", "j", "s", "o", "n", "\n", "[", "4", "]", "\n", "U+0060", "U+0060", "U+0060">>

PieceBrokenJsonFence == <<"U+0060", "U+0060", "U+0060", "j", "s", "o", "n", "\n", "n", "o", "p", "e", "\n", "U+0060", "U+0060", "U+0060">>

PiecePlainFence == <<"U+0060", "U+0060", "U+0060", "\n", "{", "}", "\n", "U+0060", "U+0060", "U+0060">>

JsonPieces ==
    {PieceProse, PieceArray, PieceObject, PieceCutArray, PieceJsonFence,
     PieceBrokenJsonFence, PiecePlainFence}

\* The pieces one after the other.
RECURSIVE Flatten(_)
Flatten(pieces) ==
    IF pieces = <<>> THEN <<>> ELSE pieces[1] \o Flatten(Tail(pieces))

JsonContents == {Flatten(p) : p \in StringsUpTo(JsonPieces, MaxPieces)}

JsonInit == FnInit(JsonContents)

JsonCall ==
    /\ fnPc = "in"
    /\ fnPc' = "out"
    /\ fnRes' = extractJSON(fnArg)
    /\ UNCHANGED <<fnArg, serverVars>>

SpecJson == JsonInit /\ [][JsonCall]_vars

\* What a match gives when it is tried on its own: its parse, or a failure
\* when there is no match.
ParsedMatch(match) == IF match.found THEN JSONParse(match.group) ELSE Thrown(MsgNoJson)

\* The four strategies in their order, each tried on its own.
Strategies(content) ==
    << JSONParse(content),
       ParsedMatch(IF FenceMatch(content, FenceJsonTag).found
                   THEN FenceMatch(content, FenceJsonTag)
                   ELSE FenceMatch(content, Fence)),
       ParsedMatch(GreedyMatch(content, "[", "]")),
       ParsedMatch(GreedyMatch(content, "{", "}")) >>

\* The strategies that succeed.
Succeeding(tries) == {i \in 1..Len(tries) : tries[i].ok}

\* C11: extractJSON returns the result of the first of direct parse, fenced
\* block, array match and object match that succeeds, and fails only when
\* none of them succeeds.
C11_FirstSuccessfulStrategy ==
    fnPc = "out" =>
        IF Succeeding(Strategies(fnArg)) = {} THEN ~fnRes.ok
        ELSE fnRes = Strategies(fnArg)[MinOf(Succeeding(Strategies(fnArg)))]

(***************************************************************************)
(* TranscriptService.getTranscript                                         *)
(***************************************************************************)

\* 'No transcript available'
MsgNoTranscriptData == <<"N", "o", " ", "t", "r", "a", "n", "s", "c", "r", "i", "p", "t", " ", "a", "v", "a", "i", "l", "a", "b", "l", "e">>

\* 'Transcripts are disabled for this video'
MsgTranscriptsDisabled == <<"T", "r", "a", "n", "s", "c", "r", "i", "p", "t", "s", " ", "a", "r", "e", " ", "d", "i", "s", "a", "b", "l", "e", "d", " ", "f", "o", "r", " ", "t", "h", "i", "s", " ", "v", "i", "d", "e", "o">>

\* 'Video not found or transcripts not available'
MsgVideoNotFound == <<"V", "i", "d", "e", "o", " ", "n", "o", "t", " ", "f", "o", "u", "n", "d", " ", "o", "r", " ", "t", "r", "a", "n", "s", "c", "r", "i", "p", "t", "s", " ", "n", "o", "t", " ", "a", "v", "a", "i", "l", "a", "b", "l", "e">>

\* 'Failed to fetch transcript. Please ensure the video has captions enabled.'
MsgFetchFailed == <<"F", "a", "i", "l", "e", "d", " ", "t", "o", " ", "f", "e", "t", "c", "h", " ", "t", "r", "a", "n", "s", "c", "r", "i", "p", "t", ".", " ", "P", "l", "e", "a", "s", "e", " ", "e", "n", "s", "u", "r", "e", " ", "t", "h", "e", " ", "v", "i", "d", "e", "o", " ", "h", "a", "s", " ", "c", "a", "p", "t", "i", "o", "n", "s", " ", "e", "n", "a", "b", "l", "e", "d", ".">>

\* transcriptData.map(segment => segment.text).join(' ')
RECURSIVE JoinTexts(_)
JoinTexts(segments) ==
    IF segments = <<>> THEN <<>>
    ELSE IF Len(segments) = 1 THEN segments[1].text
    ELSE segments[1].text \o <<" ">> \o JoinTexts(Tail(segments))

\* The catch block of getTranscript: the error thrown in place of error.
ClassifyFetchError(error) ==
    IF Includes(error.message, <<"T", "r", "a", "n", "s", "c", "r", "i", "p", "t", " ", "i", "s", " ", "d", "i", "s", "a", "b", "l", "e", "d">>) THEN Thrown(MsgTranscriptsDisabled)
    ELSE IF Includes(error.message, <<"C", "o", "u", "l", "d", " ", "n", "o", "t", " ", "f", "i", "n", "d">>) THEN Thrown(MsgVideoNotFound)
    ELSE Thrown(MsgFetchFailed)

\* getTranscript once YoutubeTranscript.fetchTranscript has settled as
\* fetched: the cleaned transcript returned, or the error thrown.
getTranscript(fetched) ==
    IF ~fetched.ok THEN ClassifyFetchError(fetched.error)
    ELSE IF Falsy(fetched.v) \/ Len(fetched.v.items) = 0
         THEN ClassifyFetchError([message |-> MsgNoTranscriptData])
    ELSE Returned(Str(cleanTranscript(JoinTexts(fetched.v.items))))

(***************************************************************************)
(* AIService: key points, truncation, the failure classes                  *)
(***************************************************************************)

\* The bullet character.
Bullet == "U+2022"

\* String.prototype.split on one character.
RECURSIVE Split(_, _, _)
Split(s, sep, line) ==
    IF s = <<>> THEN <<line>>
    ELSE IF Head(s) = sep THEN <<line>> \o Split(Tail(s), sep, <<>>)
    ELSE Split(Tail(s), sep, Append(line, Head(s)))

\* line.trim().startsWith('-') || line.trim().startsWith(bullet)
IsBulletLine(line) == Trim(line) # <<>> /\ Trim(line)[1] \in {"-", Bullet}

\* line.replace(/^[-bullet]\s*/, '').trim(): the marker is removed only when
\* it is the first character of the line.
StripMarker(line) ==
    IF line # <<>> /\ line[1] \in {"-", Bullet} THEN Trim(TrimStart(Tail(line))) ELSE Trim(line)

NonEmpty(point) == Len(point) > 0

\* points.slice(0, 10)
MAX_KEY_POINTS == 10

StripMarkers(lines) == [i \in 1..Len(lines) |-> StripMarker(lines[i])]

FirstPoints(points) == SubSeq(points, 1, Min(MAX_KEY_POINTS, Len(points)))

\* generateKeyPoints once the model has answered text.
generateKeyPoints(text) ==
    FirstPoints(SelectSeq(StripMarkers(SelectSeq(Split(Trim(text), "\n", <<>>), IsBulletLine)), NonEmpty))

(***************************************************************************)
(* Harness for generateKeyPoints: the model's text is count lines, the     *)
(* first ones drawn from PointLines and the others plain bullet lines.     *)
(***************************************************************************)

\* How many leading lines of the text vary.
MaxVariedLines == 2

LineDash == <<"-", " ", "p", "o", "i", "n", "t">>

LineBullet == <<"U+2022", " ", "d", "o", "t">>

LineIndented == <<" ", " ", "-", " ", "n", "e", "s", "t", "e", "d">>

LinePlain == <<"K", "e", "y", " ", "p", "o", "i", "n", "t", "s", ":">>

LineMarkerOnly == <<"-">>

LineSpaced == <<"-", " ", " ", " ", "w", "i", "d", "e", " ", " ">>

PointLines == {LineDash, LineBullet, LineIndented, LinePlain, LineMarkerOnly, LineSpaced, <<>>}

PointCounts == {0, 1, 2, 5, 6, MAX_KEY_POINTS, MAX_KEY_POINTS + 1, MAX_KEY_POINTS + 2}

PointTexts ==
    [count : PointCounts, head : StringsUpTo(PointLines, MaxVariedLines)]

\* The lines joined with line feeds.
RECURSIVE JoinLines(_)
JoinLines(lines) ==
    IF lines = <<>> THEN <<>>
    ELSE IF Len(lines) = 1 THEN lines[1]
    ELSE lines[1] \o <<"\n">> \o JoinLines(Tail(lines))

\* The lines the parts spell, and their text.
PointLinesOf(parts) ==
    [i \in 1..parts.count |-> IF i <= Len(parts.head) THEN parts.head[i] ELSE LineDash]

PointTextOf(parts) == JoinLines(PointLinesOf(parts))

PointsInit == FnInit({p \in PointTexts : Len(p.head) <= p.count})

PointsCall ==
    /\ fnPc = "in"
    /\ fnPc' = "out"
    /\ fnRes' = generateKeyPoints(PointTextOf(fnArg))
    /\ UNCHANGED <<fnArg, serverVars>>

SpecPoints == PointsInit /\ [][PointsCall]_vars

\* A line that begins with a marker, optionally after whitespace, and the
\* line without that marker.
BeginsWithMarker(line) == TrimStart(line) # <<>> /\ TrimStart(line)[1] \in {"-", Bullet}

WithoutMarker(line) == Trim(Tail(TrimStart(line)))

\* The bullet lines in order, each without its marker, the blank ones
\* dropped, at most 10 of them.
RECURSIVE MarkedPoints(_)
MarkedPoints(lines) ==
    IF lines = <<>> THEN <<>>
    ELSE IF BeginsWithMarker(lines[1]) /\ WithoutMarker(lines[1]) # <<>>
    THEN <<WithoutMarker(lines[1])>> \o MarkedPoints(Tail(lines))
    ELSE MarkedPoints(Tail(lines))

\* C13: generateKeyPoints returns, in order, the lines that begin with a
\* marker (optionally after whitespace), each with its marker stripped, the
\* blank ones discarded, at most 10 of them, a short list as it is.
C13_KeyPointsStripped ==
    fnPc = "out" =>
        fnRes = SubSeq(MarkedPoints(PointLinesOf(fnArg)), 1,
                       Min(MAX_KEY_POINTS, Len(MarkedPoints(PointLinesOf(fnArg)))))

\* '\n\n[... middle section omitted for brevity ...]\n\n'
ElisionMarker ==
    <<"\n", "\n">> \o <<"[", ".", ".", ".", " ", "m", "i", "d", "d", "l", "e", " ", "s", "e", "c", "t", "i", "o", "n", " ", "o", "m", "i", "t", "t", "e", "d", " ", "f", "o", "r", " ", "b", "r", "e", "v", "i", "t", "y", " ", ".", ".", ".", "]">> \o <<"\n", "\n">>

\* A variant of truncateTranscript that cuts to the budget without a marker.
truncateTranscriptSilent(transcript, maxChars) ==
    IF Len(transcript) <= maxChars THEN transcript
    ELSE SubSeq(transcript, 1, maxChars)

\* truncateTranscript(transcript, maxChars)
truncateTranscript(transcript, maxChars) ==
    IF Len(transcript) <= maxChars THEN transcript
    ELSE SubSeq(transcript, 1, maxChars \div 2)
         \o ElisionMarker
         \o SubSeq(transcript, Len(transcript) - (maxChars \div 2) + 1, Len(transcript))

\* this.truncateTranscript(transcript, 12000)
MAX_AI_CHARS == 12000

(***************************************************************************)
(* Harness for truncateTranscript: every transcript over two characters of *)
(* at most MaxTruncLen characters, under every budget up to MaxBudget.     *)
(***************************************************************************)

\* The longest transcript truncated.
MaxTruncLen == 5

\* The largest budget.
MaxBudget == 6

TruncateArgs ==
    [transcript : StringsUpTo({"a", "b"}, MaxTruncLen), maxChars : 0..MaxBudget]

TruncateInit == FnInit(TruncateArgs)

TruncateCall ==
    /\ fnPc = "in"
    /\ fnPc' = "out"
    /\ fnRes' = truncateTranscript(fnArg.transcript, fnArg.maxChars)
    /\ UNCHANGED <<fnArg, serverVars>>

SpecTruncate == TruncateInit /\ [][TruncateCall]_vars

\* The result is the first half characters of t, the marker, the last half
\* characters of t, and the two parts of t do not overlap.
Elided(result, t, half) ==
    /\ Len(result) = half + Len(ElisionMarker) + half
    /\ SubSeq(result, 1, half) = SubSeq(t, 1, half)
    /\ SubSeq(result, half + 1, half + Len(ElisionMarker)) = ElisionMarker
    /\ SubSeq(result, half + Len(ElisionMarker) + 1, Len(result))
           = SubSeq(t, Len(t) - half + 1, Len(t))
    /\ half < Len(t) - half + 1

\* C12: a transcript within the budget is returned unchanged; a longer one
\* is returned as its first floor(max/2) characters, the elision marker and
\* its last floor(max/2) characters, the two parts not overlapping.
C12_TruncateKeepsEnds ==
    fnPc = "out" =>
        IF Len(fnArg.transcript) <= fnArg.maxChars
        THEN fnRes = fnArg.transcript
        ELSE Elided(fnRes, fnArg.transcript, fnArg.maxChars \div 2)

\* A transcript two characters over an odd budget has been truncated.
C12_Witness ==
    /\ fnPc = "out"
    /\ fnArg.maxChars = 3
    /\ fnArg.transcript = <<"a", "b", "a", "b", "b">>
    /\ fnRes = <<"a">> \o ElisionMarker \o <<"b">>

\* 'GEMINI_API_KEY is not set in environment variables'
MsgKeyNotSet == <<"G", "E", "M", "I", "N", "I", "_", "A", "P", "I", "_", "K", "E", "Y", " ", "i", "s", " ", "n", "o", "t", " ", "s", "e", "t", " ", "i", "n", " ", "e", "n", "v", "i", "r", "o", "n", "m", "e", "n", "t", " ", "v", "a", "r", "i", "a", "b", "l", "e", "s">>

\* 'API quota exceeded. Please try again later or upgrade your API plan.'
MsgQuota == <<"A", "P", "I", " ", "q", "u", "o", "t", "a", " ", "e", "x", "c", "e", "e", "d", "e", "d", ".", " ", "P", "l", "e", "a", "s", "e", " ", "t", "r", "y", " ", "a", "g", "a", "i", "n", " ", "l", "a", "t", "e", "r", " ", "o", "r", " ", "u", "p", "g", "r", "a", "d", "e", " ", "y", "o", "u", "r", " ", "A", "P", "I", " ", "p", "l", "a", "n", ".">>

\* 'AI model not available. Please check your API configuration.'
MsgModelUnavailable == <<"A", "I", " ", "m", "o", "d", "e", "l", " ", "n", "o", "t", " ", "a", "v", "a", "i", "l", "a", "b", "l", "e", ".", " ", "P", "l", "e", "a", "s", "e", " ", "c", "h", "e", "c", "k", " ", "y", "o", "u", "r", " ", "A", "P", "I", " ", "c", "o", "n", "f", "i", "g", "u", "r", "a", "t", "i", "o", "n", ".">>

\* 'Invalid API key. Please check your configuration.'
MsgInvalidKey == <<"I", "n", "v", "a", "l", "i", "d", " ", "A", "P", "I", " ", "k", "e", "y", ".", " ", "P", "l", "e", "a", "s", "e", " ", "c", "h", "e", "c", "k", " ", "y", "o", "u", "r", " ", "c", "o", "n", "f", "i", "g", "u", "r", "a", "t", "i", "o", "n", ".">>

\* 'Failed to generate learning materials: '
MsgGenerationFailed == <<"F", "a", "i", "l", "e", "d", " ", "t", "o", " ", "g", "e", "n", "e", "r", "a", "t", "e", " ", "l", "e", "a", "r", "n", "i", "n", "g", " ", "m", "a", "t", "e", "r", "i", "a", "l", "s", ":", " ">>

\* The catch block of AIService.processTranscript: the error thrown in place
\* of error.
ClassifyAiError(error) ==
    IF Includes(error.message, <<"4", "2", "9">>) \/ Includes(error.message, <<"q", "u", "o", "t", "a">>)
    THEN Thrown(MsgQuota)
    ELSE IF Includes(error.message, <<"4", "0", "4">>) \/ Includes(error.message, <<"n", "o", "t", " ", "f", "o", "u", "n", "d">>)
    THEN Thrown(MsgModelUnavailable)
    ELSE IF Includes(error.message, <<"A", "P", "I", " ", "k", "e", "y">>)
    THEN Thrown(MsgInvalidKey)
    ELSE Thrown(MsgGenerationFailed \o error.message)

\* 'Educational Video'
DefaultTitle == <<"E", "d", "u", "c", "a", "t", "i", "o", "n", "a", "l", " ", "V", "i", "d", "e", "o">>

\* extractTitle once the model call has settled as answered: the trimmed
\* text, or the default title when the call threw.
extractTitle(answered) ==
    IF answered.ok THEN Trim(answered.v) ELSE DefaultTitle

(***************************************************************************)
(* TranscriptService.segmentTranscript                                     *)
(***************************************************************************)

\* The for loop over the words: a word that would take the current chunk
\* over maxLength closes it and starts the next one.
RECURSIVE SegmentLoop(_, _, _, _)
SegmentLoop(words, chunks, currentChunk, maxLength) ==
    IF words = <<>> THEN [chunks |-> chunks, currentChunk |-> currentChunk]
    ELSE IF Len(currentChunk \o Head(words)) > maxLength
    THEN SegmentLoop(Tail(words), Append(chunks, Trim(currentChunk)),
                     Head(words) \o <<" ">>, maxLength)
    ELSE SegmentLoop(Tail(words), chunks, currentChunk \o Head(words) \o <<" ">>, maxLength)

\* The chunk left after the loop is pushed when it is not blank.
WithLastChunk(loop) ==
    IF Trim(loop.currentChunk) # <<>>
    THEN Append(loop.chunks, Trim(loop.currentChunk))
    ELSE loop.chunks

\* segmentTranscript(transcript, maxLength)
segmentTranscript(transcript, maxLength) ==
    WithLastChunk(SegmentLoop(Split(transcript, " ", <<>>), <<>>, <<>>, maxLength))

(***************************************************************************)
(* Harness for segmentTranscript: every text of words of a's of at most   *)
(* MaxSegmentedLen characters, under every maxLength up to MaxChunk.       *)
(***************************************************************************)

\* The longest text segmented.
MaxSegmentedLen == 6

\* The largest maxLength.
MaxChunk == 3

SegmentArgs ==
    [transcript : StringsUpTo({"a", " "}, MaxSegmentedLen), maxLength : 1..MaxChunk]

SegmentInit == FnInit(SegmentArgs)

SegmentCall ==
    /\ fnPc = "in"
    /\ fnPc' = "out"
    /\ fnRes' = segmentTranscript(fnArg.transcript, fnArg.maxLength)
    /\ UNCHANGED <<fnArg, serverVars>>

SpecSegment == SegmentInit /\ [][SegmentCall]_vars

\* C21: every chunk segmentTranscript returns is non-empty and at most
\* maxLength characters long.
C21_ChunksBounded ==
    fnPc = "out" =>
        \A i \in 1..Len(fnRes) : Len(fnRes[i]) >= 1 /\ Len(fnRes[i]) <= fnArg.maxLength

(***************************************************************************)
(* middleware/errorHandler.js                                              *)
(***************************************************************************)

\* 'An unexpected error occurred. Please try again.'
MsgUnexpected == <<"A", "n", " ", "u", "n", "e", "x", "p", "e", "c", "t", "e", "d", " ", "e", "r", "r", "o", "r", " ", "o", "c", "c", "u", "r", "r", "e", "d", ".", " ", "P", "l", "e", "a", "s", "e", " ", "t", "r", "y", " ", "a", "g", "a", "i", "n", ".">>

\* 'Server configuration error. Please contact support.'
MsgConfiguration == <<"S", "e", "r", "v", "e", "r", " ", "c", "o", "n", "f", "i", "g", "u", "r", "a", "t", "i", "o", "n", " ", "e", "r", "r", "o", "r", ".", " ", "P", "l", "e", "a", "s", "e", " ", "c", "o", "n", "t", "a", "c", "t", " ", "s", "u", "p", "p", "o", "r", "t", ".">>

\* 'API quota exceeded. Please try again later.'
MsgQuotaLater == <<"A", "P", "I", " ", "q", "u", "o", "t", "a", " ", "e", "x", "c", "e", "e", "d", "e", "d", ".", " ", "P", "l", "e", "a", "s", "e", " ", "t", "r", "y", " ", "a", "g", "a", "i", "n", " ", "l", "a", "t", "e", "r", ".">>

\* 'Too many requests. Please try again later.'
MsgTooManyRequests == <<"T", "o", "o", " ", "m", "a", "n", "y", " ", "r", "e", "q", "u", "e", "s", "t", "s", ".", " ", "P", "l", "e", "a", "s", "e", " ", "t", "r", "y", " ", "a", "g", "a", "i", "n", " ", "l", "a", "t", "e", "r", ".">>

\* 'AI service temporarily unavailable. Please try again.'
MsgAiUnavailable == <<"A", "I", " ", "s", "e", "r", "v", "i", "c", "e", " ", "t", "e", "m", "p", "o", "r", "a", "r", "i", "l", "y", " ", "u", "n", "a", "v", "a", "i", "l", "a", "b", "l", "e", ".", " ", "P", "l", "e", "a", "s", "e", " ", "t", "r", "y", " ", "a", "g", "a", "i", "n", ".">>

\* 'AI model configuration error. Please contact support.'
MsgModelConfiguration == <<"A", "I", " ", "m", "o", "d", "e", "l", " ", "c", "o", "n", "f", "i", "g", "u", "r", "a", "t", "i", "o", "n", " ", "e", "r", "r", "o", "r", ".", " ", "P", "l", "e", "a", "s", "e", " ", "c", "o", "n", "t", "a", "c", "t", " ", "s", "u", "p", "p", "o", "r", "t", ".">>

\* err.status, undefined for an Error built from a message alone.
ErrStatus(err) == IF "status" \in DOMAIN err THEN err.status ELSE 0

\* The status code and the message errorHandler chooses for err.
ErrorClass(err) ==
    IF Includes(err.message, <<"t", "r", "a", "n", "s", "c", "r", "i", "p", "t">>)
    THEN [statusCode |-> 404, message |-> err.message]
    ELSE IF Includes(err.message, <<"I", "n", "v", "a", "l", "i", "d">>)
    THEN [statusCode |-> 400, message |-> err.message]
    ELSE IF Includes(err.message, <<"A", "P", "I", " ", "k", "e", "y">>) \/ Includes(err.message, <<"G", "E", "M", "I", "N", "I", "_", "A", "P", "I", "_", "K", "E", "Y">>)
    THEN [statusCode |-> 500, message |-> MsgConfiguration]
    ELSE IF Includes(err.message, <<"q", "u", "o", "t", "a">>)
    THEN [statusCode |-> 429, message |-> MsgQuotaLater]
    ELSE IF Includes(err.message, <<"r", "a", "t", "e", " ", "l", "i", "m", "i", "t">>)
    THEN [statusCode |-> 429, message |-> MsgTooManyRequests]
    ELSE IF Includes(err.message, <<"n", "o", "t", " ", "a", "v", "a", "i", "l", "a", "b", "l", "e">>) \/ Includes(err.message, <<"n", "o", "t", " ", "f", "o", "u", "n", "d", " ", "f", "o", "r", " ", "A", "P", "I", " ", "v", "e", "r", "s", "i", "o", "n">>)
    THEN [statusCode |-> 503, message |-> MsgAiUnavailable]
    ELSE IF ErrStatus(err) = 404 /\ Includes(err.message, <<"m", "o", "d", "e", "l">>)
    THEN [statusCode |-> 503, message |-> MsgModelConfiguration]
    ELSE [statusCode |-> 500, message |-> MsgUnexpected]

\* The response body: stack and details are added in development mode.
ErrorBody(class, err, mode) ==
    IF mode = Str(<<"d", "e", "v", "e", "l", "o", "p", "m", "e", "n", "t">>)
    THEN [success |-> FALSE, error |-> class.message, stack |-> "stack", details |-> err.message]
    ELSE [success |-> FALSE, error |-> class.message]

\* errorHandler(err, req, res, next): the response it sends.
errorHandler(err, mode) ==
    [status |-> ErrorClass(err).statusCode, json |-> ErrorBody(ErrorClass(err), err, mode)]

(***************************************************************************)
(* generateTranscriptHash                                                  *)
(***************************************************************************)

\* The characters of code 32 to 126, in order.
AsciiPrintable ==
    <<" ", "!", "\"", "#", "$", "%", "&", "'", "(", ")", "*", "+", ",", "-", ".", "/", "0", "1", "2", "3", "4", "5", "6", "7", "8", "9", ":", ";", "<", "=", ">", "?", "@", "A", "B", "C", "D", "E", "F", "G", "H", "I", "J", "K", "L", "M", "N", "O", "P", "Q", "R", "S", "T", "U", "V", "W", "X", "Y", "Z", "[", "\\", "]", "^", "_", "U+0060", "a", "b", "c", "d", "e", "f", "g", "h", "i", "j", "k", "l", "m", "n", "o", "p", "q", "r", "s", "t", "u", "v", "w", "x", "y", "z", "{", "|", "}", "~">>

\* charCodeAt of a character.
CharCode(c) ==
    IF \E i \in 1..Len(AsciiPrintable) : AsciiPrintable[i] = c
    THEN 31 + (CHOOSE i \in 1..Len(AsciiPrintable) : AsciiPrintable[i] = c)
    ELSE CASE c = "\t" -> 9
           [] c = "\n" -> 10
           [] c = "\r" -> 13
           [] c = "U+00AA" -> 170
           [] c = "U+00E2" -> 226
           [] c = "U+2022" -> 8226
           [] c = "U+2122" -> 8482

\* A 32-bit integer is kept as its two 16-bit halves, hi and lo, of its
\* two's complement bits.
Int32(hi, lo) == [hi |-> hi, lo |-> lo]

\* hash = ((hash << 5) - hash) + char; hash = hash & hash: 31 * hash + char,
\* wrapped to 32 bits.
HashStep(hash, char) ==
    Int32((hash.hi * 31 + (hash.lo * 31 + char) \div 65536) % 65536,
          (hash.lo * 31 + char) % 65536)

\* The loop of generateTranscriptHash over str[i..j], from hash. (A half is
\* never negative: the test on hash.hi only has the hash so far evaluated
\* before the loop goes on.)
RECURSIVE HashLoop(_, _, _, _)
HashLoop(hash, str, i, j) ==
    IF i > j \/ hash.hi < 0 THEN hash
    ELSE IF i = j THEN HashStep(hash, CharCode(str[i]))
    ELSE HashLoop(HashLoop(hash, str, i, (i + j) \div 2), str, (i + j) \div 2 + 1, j)

\* Math.abs of a 32-bit integer, as the halves of an unsigned number.
Abs32(hash) ==
    IF hash.hi < 32768 THEN hash
    ELSE Int32((65535 - hash.hi + (IF hash.lo = 0 THEN 1 ELSE 0)) % 65536,
               (65536 - hash.lo) % 65536)

\* The digits of toString(36).
Base36Digits == <<"0", "1", "2", "3", "4", "5", "6", "7", "8", "9", "a", "b", "c", "d", "e", "f", "g", "h", "i", "j", "k", "l", "m", "n", "o", "p", "q", "r", "s", "t", "u", "v", "w", "x", "y", "z">>

\* n divided by 36.
Div36(n) == Int32(n.hi \div 36, ((n.hi % 36) * 65536 + n.lo) \div 36)

\* n modulo 36.
Mod36(n) == ((n.hi % 36) * 65536 + n.lo) % 36

\* Number.prototype.toString(36) of a non-negative integer.
RECURSIVE ToString36(_)
ToString36(n) ==
    IF n.hi = 0 /\ n.lo < 36 THEN <<Base36Digits[n.lo + 1]>>
    ELSE Append(ToString36(Div36(n)), Base36Digits[Mod36(n) + 1])

\* transcript.substring(0, 1000)
HASH_PREFIX == 1000

\* A hash of the whole transcript (a variant of generateTranscriptHash
\* without the substring).
generateTranscriptHashWhole(transcript) ==
    ToString36(Abs32(HashLoop(Int32(0, 0), transcript, 1, Len(transcript))))

generateTranscriptHash(transcript) ==
    ToString36(Abs32(HashLoop(Int32(0, 0), transcript, 1, Min(HASH_PREFIX, Len(transcript)))))

\* 'transcript_'
TranscriptKeyPrefix == <<"t", "r", "a", "n", "s", "c", "r", "i", "p", "t", "_">>

(***************************************************************************)
(* utils/cache.js: CacheManager over node-cache                            *)
(***************************************************************************)

\* The digits of parseInt, by value: the first ten for radix 10, all sixteen
\* after a 0x prefix (the letters in either case).
RadixDigits == <<{"0"}, {"1"}, {"2"}, {"3"}, {"4"}, {"5"}, {"6"}, {"7"}, {"8"}, {"9"},
                 {"a", "A"}, {"b", "B"}, {"c", "C"}, {"d", "D"}, {"e", "E"}, {"f", "F"}>>

IsRadixDigit(c, radix) == \E d \in 1..radix : c \in RadixDigits[d]

RadixValue(c, radix) == (CHOOSE d \in 1..radix : c \in RadixDigits[d]) - 1

\* The value of the longest run of digits of s from position i on, after acc.
RECURSIVE RadixRun(_, _, _, _)
RadixRun(s, i, radix, acc) ==
    IF i <= Len(s) /\ IsRadixDigit(s[i], radix)
    THEN RadixRun(s, i + 1, radix, acc * radix + RadixValue(s[i], radix))
    ELSE acc

\* parseInt once the whitespace and the sign are read: NaN when no digit
\* follows.
ParseIntFrom(s, i, sign) ==
    IF MatchesAt(s, <<"0", "x">>, i) \/ MatchesAt(s, <<"0", "X">>, i)
    THEN IF i + 2 <= Len(s) /\ IsRadixDigit(s[i + 2], 16)
         THEN Num(sign * RadixRun(s, i + 2, 16, 0))
         ELSE NaN
    ELSE IF i <= Len(s) /\ IsRadixDigit(s[i], 10)
         THEN Num(sign * RadixRun(s, i, 10, 0))
         ELSE NaN

\* parseInt(v) of a string after its leading whitespace.
ParseIntTrimmed(s) ==
    IF s # <<>> /\ s[1] = "-" THEN ParseIntFrom(s, 2, 0 - 1)
    ELSE IF s # <<>> /\ s[1] = "+" THEN ParseIntFrom(s, 2, 1)
    ELSE ParseIntFrom(s, 1, 1)

\* parseInt(v); an unset variable reads as undefined, which parses to NaN.
ParseInt(v) == IF IsString(v) THEN ParseIntTrimmed(TrimStart(v.s)) ELSE NaN

\* The default of stdTTL, in seconds.
DEFAULT_TTL == 3600

\* checkperiod, in seconds.
CHECK_PERIOD == 600

\* stdTTL: parseInt(process.env.CACHE_TTL) || 3600
stdTTL(e) == OrElse(ParseInt(e.CACHE_TTL), Num(DEFAULT_TTL)).n

\* NodeCache's data with no key.
NoData == <<>>

\* data without key.
Without(data, key) == [k \in DOMAIN data \ {key} |-> data[k]]

\* data with key bound to entry.
With(data, key, entry) ==
    [k \in DOMAIN data \cup {key} |-> IF k = key THEN entry ELSE data[k]]

\* An entry that never expires.
ExpiredNever(entry, t) == FALSE

\* node-cache _check: an entry with an expiry time is expired once the
\* clock is past it.
Expired(entry, t) == entry.t # 0 /\ entry.t < t

\* node-cache get: the value of a key that is present and not expired, else
\* undefined; an expired entry is deleted on the way.
NodeCacheGet(data, key, t) ==
    IF key \notin DOMAIN data THEN [ret |-> Undefined, data |-> data]
    ELSE IF Expired(data[key], t) THEN [ret |-> Undefined, data |-> Without(data, key)]
    ELSE [ret |-> data[key].v, data |-> data]

\* node-cache _wrap: the value with its expiry time, 0 for none.
Wrap(value, ttl, t) == [v |-> value, t |-> IF ttl = 0 THEN 0 ELSE t + ttl * 1000]

\* node-cache set with the standard ttl; an existing entry is replaced.
NodeCacheSet(data, key, value, ttl, t) ==
    [ret |-> TRUE, data |-> With(data, key, Wrap(value, ttl, t))]

\* node-cache del: the number of entries deleted.
NodeCacheDel(data, key) ==
    IF key \in DOMAIN data
    THEN [ret |-> 1, data |-> Without(data, key)]
    ELSE [ret |-> 0, data |-> data]

\* node-cache _checkData: every expired entry is deleted.
CheckData(data, t) == [k \in {j \in DOMAIN data : ~Expired(data[j], t)} |-> data[k]]

\* What CacheManager.get makes of node-cache's answer.
FoundOrNull(got) == [ret |-> IF Falsy(got.ret) THEN Null ELSE got.ret, data |-> got.data]

\* CacheManager.get that finds nothing.
CacheManagerGetNothing(data, key, t) == [ret |-> Null, data |-> data]

\* CacheManager.get(key)
CacheManagerGet(data, key, t) == FoundOrNull(NodeCacheGet(data, key, t))

\* A variant of CacheManager.set that keeps the live entry a key has.
CacheManagerSetIfAbsent(data, key, value, ttl, t) ==
    IF key \in DOMAIN data /\ ~Expired(data[key], t)
    THEN [ret |-> TRUE, data |-> data]
    ELSE NodeCacheSet(data, key, value, ttl, t)

\* CacheManager.set(key, value)
CacheManagerSet(data, key, value, ttl, t) == NodeCacheSet(data, key, value, ttl, t)

\* CacheManager.delete(key)
CacheManagerDelete(data, key) == NodeCacheDel(data, key)

\* CacheManager.clear(): flushAll empties the data and restarts the check
\* timer.
CacheManagerClear(t) == [data |-> NoData, nextCheck |-> t + CHECK_PERIOD * 1000]

\* The process as it starts, with its environment among the given settings.
ServerInit(ttlSettings, keySettings, modeSettings) ==
    /\ env \in [CACHE_TTL : ttlSettings, GEMINI_API_KEY : keySettings, NODE_ENV : modeSettings]
    /\ model = Null
    /\ now = 0
    /\ nextCheck = CHECK_PERIOD * 1000
    /\ cache = NoData
    /\ fnPc = "off"
    /\ fnArg = Null
    /\ fnRes = Null

(***************************************************************************)
(* The clock and node-cache's check timer                                  *)
(***************************************************************************)

\* The clock is followed over MaxWindows times the ttl, and MaxDrift
\* milliseconds past each multiple of it.
MaxWindows == 1

MaxDrift == 1

TtlMs == stdTTL(env) * 1000

\* Time passes: a millisecond, or the ttl.
Tick ==
    /\ \E d \in {1, TtlMs} :
        /\ (now + d) \div TtlMs <= MaxWindows
        /\ (now + d) % TtlMs <= MaxDrift
        /\ now' = now + d
    /\ UNCHANGED <<fnVars, env, model, nextCheck, cache, req, received, cacheOp>>

\* The check timer fires, at its due time or later, and is set again.
Sweep ==
    /\ now >= nextCheck
    /\ cache' = CheckData(cache, now)
    /\ nextCheck' = now + CHECK_PERIOD * 1000
    /\ UNCHANGED <<fnVars, env, model, now, req, received, cacheOp>>

(***************************************************************************)
(* controllers/learning.controller.js: processVideo and processTranscript  *)
(***************************************************************************)

\* The requests the server handles at a time.
Slots == {1, 2}

\* The requests the server is followed over.
MaxRequests == 2

\* A slot with no request.
Idle == [pc |-> "idle"]

\* The calls a request has made so far: to TranscriptService.getTranscript,
\* to the methods of AIService, to CacheManager.set.
NoCalls == [fetch |-> 0, ai |-> 0, cacheSet |-> 0]

\* A request takes the lowest slot that is free.
LowestFree(r) == req[r].pc = "idle" /\ \A lower \in Slots : lower < r => req[lower].pc # "idle"

\* A request that has been answered with res.
Done(path, key, calls, res) ==
    [pc |-> "done", path |-> path, key |-> key, calls |-> calls, res |-> res]

\* res.json({ success: true, data, cached })
Success(data, cached) ==
    [status |-> 200, json |-> [success |-> TRUE, data |-> data, cached |-> cached]]

\* 'Invalid YouTube URL. Please provide a valid video URL.'
MsgInvalidUrl == <<"I", "n", "v", "a", "l", "i", "d", " ", "Y", "o", "u", "T", "u", "b", "e", " ", "U", "R", "L", ".", " ", "P", "l", "e", "a", "s", "e", " ", "p", "r", "o", "v", "i", "d", "e", " ", "a", " ", "v", "a", "l", "i", "d", " ", "v", "i", "d", "e", "o", " ", "U", "R", "L", ".">>

\* 'No transcript available for this video. Please try a video with captions/subtitles enabled.'
MsgNoTranscript == <<"N", "o", " ", "t", "r", "a", "n", "s", "c", "r", "i", "p", "t", " ", "a", "v", "a", "i", "l", "a", "b", "l", "e", " ", "f", "o", "r", " ", "t", "h", "i", "s", " ", "v", "i", "d", "e", "o", ".", " ", "P", "l", "e", "a", "s", "e", " ", "t", "r", "y", " ", "a", " ", "v", "i", "d", "e", "o", " ", "w", "i", "t", "h", " ", "c", "a", "p", "t", "i", "o", "n", "s", "/", "s", "u", "b", "t", "i", "t", "l", "e", "s", " ", "e", "n", "a", "b", "l", "e", "d", ".">>

\* 'Custom Transcript'
CustomTitle == <<"C", "u", "s", "t", "o", "m", " ", "T", "r", "a", "n", "s", "c", "r", "i", "p", "t">>

\* next(error): errorHandler answers the request.
Fail(q, error, e) == Done(q.path, q.key, q.calls, errorHandler(error, e.NODE_ENV))

\* A request suspended at an await: its position and its locals (key is the
\* videoId of processVideo, the cache key of processTranscript).
Awaiting(pc, path, key, videoUrl, transcript, startTime, calls) ==
    [pc |-> pc, path |-> path, key |-> key, videoUrl |-> videoUrl,
     transcript |-> transcript, startTime |-> startTime, calls |-> calls,
     processed |-> Null, summary |-> Null, keyPoints |-> Null, quiz |-> Null]

\* AIService.initialize throws when no client was built yet and the key is
\* not set.
KeyMissing(m, e) == Falsy(m) /\ Falsy(e.GEMINI_API_KEY)

\* The client genAI.getGenerativeModel returns.
GenerativeModel == [type |-> "object"]

\* AIService.model after initialize() has returned.
Initialized(m) == IF Falsy(m) THEN GenerativeModel ELSE m

\* AIService.processTranscript up to its await of Promise.all: initialize
\* throws, or the three generations are started.
StartAi(q, transcript, m, e) ==
    IF KeyMissing(m, e)
    THEN Fail([q EXCEPT !.calls.ai = 1], [message |-> MsgKeyNotSet], e)
    ELSE [q EXCEPT !.pc = "generating",
                   !.processed = truncateTranscript(transcript, MAX_AI_CHARS),
                   !.calls.ai = 4]

\* processVideo that joins a request already in flight for the same video
\* instead of fetching again (a variant of VideoAfterLookup with in-flight
\* de-duplication).
VideoAfterLookupDeduplicated(videoUrl, videoId, t, got) ==
    IF ~Falsy(got.ret)
    THEN Done("video", videoId, NoCalls, Success(got.ret, TRUE))
    ELSE IF \E o \in Slots : /\ req[o].pc \in {"fetching", "generating", "titling"}
                             /\ req[o].key = videoId
    THEN Awaiting("joined", "video", videoId, videoUrl, Null, t, NoCalls)
    ELSE Awaiting("fetching", "video", videoId, videoUrl, Null, t,
                  [NoCalls EXCEPT !.fetch = 1])

\* processVideo after CacheManager.get has answered got: the hit is
\* answered, the miss awaits the transcript.
VideoAfterLookup(videoUrl, videoId, t, got) ==
    IF ~Falsy(got.ret)
    THEN Done("video", videoId, NoCalls, Success(got.ret, TRUE))
    ELSE Awaiting("fetching", "video", videoId, videoUrl, Null, t,
                  [NoCalls EXCEPT !.fetch = 1])

\* processVideo from its start to its first await or its answer.
processVideoStart(videoUrl, videoId, data, t) ==
    IF Falsy(videoId)
    THEN Done("video", Null, NoCalls, ErrorResponse(400, MsgInvalidUrl))
    ELSE VideoAfterLookup(videoUrl, videoId, t, CacheManagerGet(data, videoId.s, t))

\* A lookup that flushes the cache (a variant of DataAfterLookup).
DataAfterLookupFlushed(key, data, t) == NoData

\* NodeCache's data after the lookup of a request, if it makes one.
DataAfterLookup(key, data, t) ==
    IF Falsy(key) THEN data ELSE CacheManagerGet(data, key.s, t).data

\* processVideo that hands whatever getTranscript returned to AIService
\* (a variant of VideoAfterFetch without the test for an empty transcript).
VideoAfterFetchUnchecked(q, got, m, e) ==
    IF ~got.ok THEN Fail(q, got.error, e)
    ELSE StartAi([q EXCEPT !.transcript = got.v.s], got.v.s, m, e)

\* processVideo once getTranscript has settled as got.
VideoAfterFetch(q, got, m, e) ==
    IF ~got.ok THEN Fail(q, got.error, e)
    ELSE IF Falsy(got.v) \/ Len(got.v.s) = 0
    THEN Done(q.path, q.key, q.calls, ErrorResponse(404, MsgNoTranscript))
    ELSE StartAi([q EXCEPT !.transcript = got.v.s], got.v.s, m, e)

\* AIService.model once a request has come to AIService.processTranscript.
ModelAfterStart(q, m) == IF q.calls.ai > 1 THEN Initialized(m) ELSE m

\* The hash alone as the cache key (a variant of TranscriptKey without the
\* 'transcript_' prefix).
TranscriptKeyBare(transcript) ==
    IF Falsy(transcript) \/ Len(Trim(transcript.s)) = 0 THEN Null
    ELSE Str(generateTranscriptHash(transcript.s))

\* The cache key of a pasted transcript: 'transcript_' and its hash; null
\* when the controller answers before it computes one.
TranscriptKey(transcript) ==
    IF Falsy(transcript) \/ Len(Trim(transcript.s)) = 0 THEN Null
    ELSE Str(TranscriptKeyPrefix \o generateTranscriptHash(transcript.s))

\* processTranscript after CacheManager.get has answered got.
TranscriptAfterLookup(transcript, key, t, got, m, e) ==
    IF ~Falsy(got.ret)
    THEN Done("transcript", key, NoCalls, Success(got.ret, TRUE))
    ELSE StartAi(Awaiting("lookup", "transcript", key, Null, transcript, t, NoCalls),
                 transcript, m, e)

\* processTranscript from its start to its first await or its answer.
processTranscriptStart(transcript, key, data, t, m, e) ==
    IF Falsy(key)
    THEN Done("transcript", Null, NoCalls, ErrorResponse(400, MsgTranscriptRequired))
    ELSE TranscriptAfterLookup(transcript.s, key, t, CacheManagerGet(data, key.s, t), m, e)

\* What the three generations make of the model's answers: the value each
\* returns or the error each throws.
Generated(s, k, z) ==
    [summary   |-> IF s.ok THEN Returned(Str(Trim(s.v))) ELSE s,
     keyPoints |-> IF k.ok THEN Returned(Arr(generateKeyPoints(k.v))) ELSE k,
     quiz      |-> IF z.ok THEN generateQuiz(z.v) ELSE z]

\* The errors the generations threw.
Rejections(g) == {g[f].error : f \in {f \in DOMAIN g : ~g[f].ok}}

\* AIService.processTranscript once Promise.all has fulfilled with g: the
\* title is asked for.
AwaitTitle(q, g) ==
    [q EXCEPT !.pc = "titling", !.calls.ai = 5,
              !.summary = g.summary.v, !.keyPoints = g.keyPoints.v, !.quiz = g.quiz.v]

\* AIService.processTranscript once Promise.all has rejected with error: the
\* catch block throws the classified error, the controller hands it on.
GenerationFailed(q, error, e) == Fail(q, ClassifyAiError(error).error, e)

\* metadata of the result.
Metadata(q, t) ==
    [transcriptLength |-> Len(q.transcript), processingTime |-> t - q.startTime, generatedAt |-> t]

\* The title as AIService returned it (a variant of TitleOr without the
\* default).
TitleAsReturned(title, default) == Str(title)

\* title: aiResult.title || 'Educational Video' / 'Custom Transcript'
TitleOr(title, default) == Str(IF title = <<>> THEN default ELSE title)

\* Step 3 of the controllers: the result built from what AIService returned.
Result(q, title, t) ==
    IF q.path = "video"
    THEN [type |-> "object", videoId |-> q.key, videoUrl |-> q.videoUrl,
          title |-> TitleOr(title, DefaultTitle), summary |-> q.summary,
          keyPoints |-> q.keyPoints, quiz |-> q.quiz, metadata |-> Metadata(q, t)]
    ELSE [type |-> "object",
          title |-> TitleOr(title, CustomTitle), summary |-> q.summary,
          keyPoints |-> q.keyPoints, quiz |-> q.quiz, metadata |-> Metadata(q, t)]

\* The controller after AIService.processTranscript has returned: the
\* request is answered with result, which was stored.
Answered(q, result) ==
    Done(q.path, q.key, [q.calls EXCEPT !.cacheSet = 1], Success(result, FALSE))

(***************************************************************************)
(* The server: requests, the provider's and the model's answers            *)
(***************************************************************************)

\* A request to /api/process with what the middleware and extractVideoId
\* make of its body.videoUrl.
VideoRequest(videoUrl) ==
    [videoUrl |-> videoUrl, middleware |-> validateVideoUrl(videoUrl),
     videoId |-> extractVideoId(videoUrl)]

\* A request to /api/process-transcript with what the middleware and
\* generateTranscriptHash make of its body.transcript.
TranscriptRequest(transcript) ==
    [transcript |-> transcript, middleware |-> validateTranscript(transcript),
     key |-> TranscriptKey(transcript)]

\* router.post('/process', validateVideoUrl, processVideo), for one of
\* requests: the middleware answers, or processVideo runs to its first await.
PostProcess(r, requests) ==
    /\ LowestFree(r)
    /\ received < MaxRequests
    /\ received' = received + 1
    /\ \E b \in requests :
        IF b.middleware.next
        THEN /\ req' = [req EXCEPT ![r] = processVideoStart(b.videoUrl, b.videoId, cache, now)]
             /\ cache' = DataAfterLookup(b.videoId, cache, now)
        ELSE /\ req' = [req EXCEPT ![r] = Done("video", Null, NoCalls, b.middleware.res)]
             /\ cache' = cache
    /\ UNCHANGED <<fnVars, env, model, now, nextCheck, cacheOp>>

\* router.post('/process-transcript', validateTranscript, processTranscript),
\* for one of requests: the middleware answers, or processTranscript runs to
\* its first await.
PostProcessTranscript(r, requests) ==
    /\ LowestFree(r)
    /\ received < MaxRequests
    /\ received' = received + 1
    /\ \E b \in requests :
        IF b.middleware.next
        THEN /\ req' = [req EXCEPT ![r] =
                            processTranscriptStart(b.transcript, b.key, cache, now, model, env)]
             /\ cache' = DataAfterLookup(b.key, cache, now)
        ELSE /\ req' = [req EXCEPT ![r] = Done("transcript", Null, NoCalls, b.middleware.res)]
             /\ cache' = cache
    /\ model' = ModelAfterStart(req'[r], model)
    /\ UNCHANGED <<fnVars, env, now, nextCheck, cacheOp>>

\* The await of TranscriptService.getTranscript ends, getTranscript having
\* returned or thrown one of transcripts.
FetchSettles(r, transcripts) ==
    /\ req[r].pc = "fetching"
    /\ \E got \in transcripts :
        req' = [req EXCEPT ![r] = VideoAfterFetch(req[r], got, model, env)]
    /\ model' = ModelAfterStart(req'[r], model)
    /\ UNCHANGED <<fnVars, env, now, nextCheck, cache, received, cacheOp>>

\* The await of Promise.all ends, the three generations having settled as
\* one of generations: all three returned, or the first to throw rejects it.
GenerationSettles(r, generations) ==
    /\ req[r].pc = "generating"
    /\ \E g \in generations :
        \/ /\ Rejections(g) = {}
           /\ req' = [req EXCEPT ![r] = AwaitTitle(req[r], g)]
        \/ \E error \in Rejections(g) :
               req' = [req EXCEPT ![r] = GenerationFailed(req[r], error, env)]
    /\ UNCHANGED <<fnVars, env, model, now, nextCheck, cache, received, cacheOp>>

\* The await of extractTitle ends with one of titles: the controller builds
\* the result, stores it and answers.
TitleSettles(r, titles) ==
    /\ req[r].pc = "titling"
    /\ \E title \in titles :
        /\ cache' = CacheManagerSet(cache, req[r].key.s, Result(req[r], title, now),
                                    stdTTL(env), now).data
        /\ req' = [req EXCEPT ![r] = Answered(req[r], Result(req[r], title, now))]
    /\ UNCHANGED <<fnVars, env, model, now, nextCheck, received, cacheOp>>

\* The answer has been sent; the slot takes the next request.
Close(r) ==
    /\ req[r].pc = "done"
    /\ req' = [req EXCEPT ![r] = Idle]
    /\ UNCHANGED <<fnVars, env, model, now, nextCheck, cache, received, cacheOp>>

(***************************************************************************)
(* The server under two requests at a time                                 *)
(***************************************************************************)

\* req.body.videoUrl of the requests to /api/process: two links to one
\* video, and the bare identifier of that video.
VideoUrls ==
    {Str(<<"h", "t", "t", "p", "s", ":", "/", "/", "y", "o", "u", "t", "u", ".", "b", "e", "/", "d", "Q", "w", "4", "w", "9", "W", "g", "X", "c", "Q">>),
     Str(<<"h", "t", "t", "p", "s", ":", "/", "/", "w", "w", "w", ".", "y", "o", "u", "t", "u", "b", "e", ".", "c", "o", "m", "/", "w", "a", "t", "c", "h", "?", "v", "=", "d", "Q", "w", "4", "w", "9", "W", "g", "X", "c", "Q", "&", "t", "=", "1", "s">>),
     Str(<<"d", "Q", "w", "4", "w", "9", "W", "g", "X", "c", "Q">>)}

\* req.body.transcript of the requests to /api/process-transcript.
PastedTranscripts ==
    {Str(<<"P", "h", "o", "t", "o", "s", "y", "n", "t", "h", "e", "s", "i", "s", " ", "i", "s", " ", "t", "h", "e", " ", "p", "r", "o", "c", "e", "s", "s", " ", "b", "y", " ", "w", "h", "i", "c", "h", " ", "g", "r", "e", "e", "n", " ", "p", "l", "a", "n", "t", "s", " ", "t", "u", "r", "n", " ", "l", "i", "g", "h", "t", ",", " ", "w", "a", "t", "e", "r", " ", "a", "n", "d", " ", "c", "a", "r", "b", "o", "n", " ", "d", "i", "o", "x", "i", "d", "e", " ", "i", "n", "t", "o", " ", "s", "u", "g", "a", "r", " ", "a", "n", "d", " ", "o", "x", "y", "g", "e", "n", ".">>),
     Str(<<"t", "o", "o", " ", "s", "h", "o", "r", "t">>)}

\* What YoutubeTranscript.fetchTranscript settles as.
FetchOutcomes ==
    {Returned(Arr(<<[text |-> <<"H", "e", "l", "l", "o", " ", " ", "w", "o", "r", "l", "d">>], [text |-> <<"[", "M", "u", "s", "i", "c", "]", " ", "a", "g", "a", "i", "n">>]>>)),
     Returned(Arr(<<[text |-> <<"[", "M", "u", "s", "i", "c", "]">>]>>)),
     Thrown(<<"[", "Y", "o", "u", "t", "u", "b", "e", "T", "r", "a", "n", "s", "c", "r", "i", "p", "t", "]", " ", "T", "r", "a", "n", "s", "c", "r", "i", "p", "t", " ", "i", "s", " ", "d", "i", "s", "a", "b", "l", "e", "d", " ", "o", "n", " ", "t", "h", "i", "s", " ", "v", "i", "d", "e", "o", " ", "(", "d", "Q", "w", "4", "w", "9", "W", "g", "X", "c", "Q", ")">>)}

\* What model.generateContent settles as, for each of the four prompts.
SummaryAnswers ==
    {Returned(<<" ", "A", " ", "s", "u", "m", "m", "a", "r", "y", ".", " ">>),
     Thrown(<<"[", "4", "2", "9", " ", "T", "o", "o", " ", "M", "a", "n", "y", " ", "R", "e", "q", "u", "e", "s", "t", "s", "]", " ", "Y", "o", "u", " ", "e", "x", "c", "e", "e", "d", "e", "d", " ", "y", "o", "u", "r", " ", "c", "u", "r", "r", "e", "n", "t", " ", "q", "u", "o", "t", "a">>)}

KeyPointsAnswers ==
    {Returned(<<"-", " ", "P", "o", "i", "n", "t", " ", "o", "n", "e">> \o <<"\n">> \o <<"-", " ", "P", "o", "i", "n", "t", " ", "t", "w", "o">>)}

QuizAnswers ==
    {Returned(<<"[", "]">>)}

TitleAnswers ==
    {Returned(<<" ", "A", " ", "T", "i", "t", "l", "e", " ">>),
     Thrown(<<"f", "e", "t", "c", "h", " ", "f", "a", "i", "l", "e", "d">>)}

\* The settings of CACHE_TTL and GEMINI_API_KEY the server is started with.
ServerTtlSettings == {Undefined, Str(<<"9", "0", "0">>)}

ServerKeySettings == {Undefined, Str(<<"k", "e", "y">>)}

Init ==
    /\ ServerInit(ServerTtlSettings, ServerKeySettings, {Undefined})
    /\ req = [r \in Slots |-> Idle]
    /\ received = 0
    /\ cacheOp = [op |-> "none"]

\* The requests, and what the awaited calls settle as.
VideoRequests == {VideoRequest(u) : u \in VideoUrls}

TranscriptRequests == {TranscriptRequest(t) : t \in PastedTranscripts}

Transcripts == {getTranscript(f) : f \in FetchOutcomes}

Generations ==
    {Generated(s, k, z) : s \in SummaryAnswers, k \in KeyPointsAnswers, z \in QuizAnswers}

Titles == {extractTitle(a) : a \in TitleAnswers}

Next ==
    \/ \E r \in Slots : PostProcess(r, VideoRequests)
    \/ \E r \in Slots : PostProcessTranscript(r, TranscriptRequests)
    \/ \E r \in Slots : FetchSettles(r, Transcripts)
    \/ \E r \in Slots : GenerationSettles(r, Generations)
    \/ \E r \in Slots : TitleSettles(r, Titles)
    \/ \E r \in Slots : Close(r)
    \/ Tick
    \/ Sweep

Spec == Init /\ [][Next]_vars

(***************************************************************************)
(* Two pasted transcripts of more than 1000 characters, one after the      *)
(* other: slot 1 takes the first, slot 2 the second.                       *)
(***************************************************************************)

Sentence == <<"P", "h", "o", "t", "o", "s", "y", "n", "t", "h", "e", "s", "i", "s", " ", "t", "u", "r", "n", "s", " ", "l", "i", "g", "h", "t", " ", "i", "n", "t", "o", " ", "s", "u", "g", "a", "r", ".", " ">>

\* The first n characters of the sentence repeated.
LongText(n) == [i \in 1..n |-> Sentence[((i - 1) % Len(Sentence)) + 1]]

\* Two transcripts that agree on their first 1000 characters and differ
\* after them, in length too, and one that differs from them in its 1000th
\* character.
LongTranscripts ==
    {Str(LongText(HASH_PREFIX) \o <<" ", "o", "n", "e">>),
     Str(LongText(HASH_PREFIX) \o <<" ", "t", "h", "r", "e", "e">>),
     Str(LongText(HASH_PREFIX - 1) \o <<"X", " ", "o", "n", "e">>)}

PrefixInit ==
    /\ env = [CACHE_TTL |-> Undefined, GEMINI_API_KEY |-> Str(<<"k", "e", "y">>), NODE_ENV |-> Undefined]
    /\ model = Null
    /\ now = 0
    /\ nextCheck = CHECK_PERIOD * 1000
    /\ cache = NoData
    /\ fnPc = "off"
    /\ fnArg \in [first : LongTranscripts, second : LongTranscripts]
    /\ fnRes = Null
    /\ req = [r \in Slots |-> Idle]
    /\ received = 0
    /\ cacheOp = [op |-> "none"]

PrefixNext ==
    \/ PostProcessTranscript(1, {TranscriptRequest(fnArg.first)})
    \/ PostProcessTranscript(2, {TranscriptRequest(fnArg.second)})
    \/ \E r \in Slots : GenerationSettles(r, Generations)
    \/ \E r \in Slots : TitleSettles(r, Titles)
    \/ Tick
    \/ Sweep

SpecPrefix == PrefixInit /\ [][PrefixNext]_vars

\* The two transcripts are the same up to their 1000th character.
AgreeOnPrefix(a, b) ==
    SubSeq(a, 1, Min(HASH_PREFIX, Len(a))) = SubSeq(b, 1, Min(HASH_PREFIX, Len(b)))

\* C20: a transcript that agrees on its first 1000 characters with one
\* answered before it, within the TTL, has the same cache key and is
\* answered cached:true with the envelope generated for that one.
C20_SamePrefixIsAHit ==
    [][(/\ req[2].pc = "idle" /\ req'[2].pc # "idle"
        /\ req[1].pc = "done" /\ req[1].res.status = 200
        /\ AgreeOnPrefix(fnArg.first.s, fnArg.second.s)
        /\ now - req[1].res.json.data.metadata.generatedAt <= TtlMs)
       => req'[2] = Done("transcript", req[1].key, NoCalls,
                         Success(req[1].res.json.data, TRUE))]_vars

\* The second of two different transcripts has been answered with the
\* envelope of the first, whose length it does not have.
C20_Witness ==
    /\ req[1].pc = "done" /\ req[2].pc = "done"
    /\ fnArg.first # fnArg.second
    /\ req[2].res.status = 200
    /\ req[2].res.json.cached = TRUE
    /\ req[2].res.json.data = req[1].res.json.data
    /\ req[2].res.json.data.metadata.transcriptLength = Len(fnArg.first.s)
    /\ Len(fnArg.second.s) # Len(fnArg.first.s)

(***************************************************************************)
(* One request from its arrival to its answer: the request's body and what *)
(* the provider and the model will answer are fixed when it arrives.       *)
(***************************************************************************)

\* A link the middleware accepts and extractVideoId finds no identifier in.
PlaylistUrl == Str(<<"h", "t", "t", "p", "s", ":", "/", "/", "w", "w", "w", ".", "y", "o", "u", "t", "u", "b", "e", ".", "c", "o", "m", "/", "p", "l", "a", "y", "l", "i", "s", "t", "?", "l", "i", "s", "t", "=", "P", "L", "1">>)

BareId == Str(<<"d", "Q", "w", "4", "w", "9", "W", "g", "X", "c", "Q">>)

ScenarioUrls == VideoUrls \cup {PlaylistUrl, Undefined}

ScenarioTranscripts == PastedTranscripts \cup {Undefined}

ScenarioFetches ==
    FetchOutcomes \cup
    {Returned(Arr(<<>>)),
     Returned(Null),
     Thrown(<<"C", "o", "u", "l", "d", " ", "n", "o", "t", " ", "f", "i", "n", "d", " ", "c", "a", "p", "t", "i", "o", "n", "s", " ", "f", "o", "r", " ", "v", "i", "d", "e", "o", " ", "d", "Q", "w", "4", "w", "9", "W", "g", "X", "c", "Q">>),
     Thrown(<<"T", "h", "e", " ", "v", "i", "d", "e", "o", " ", "i", "s", " ", "n", "o", " ", "l", "o", "n", "g", "e", "r", " ", "a", "v", "a", "i", "l", "a", "b", "l", "e">>)}

ScenarioSummaries ==
    SummaryAnswers \cup
    {Thrown(<<"[", "4", "0", "4", " ", "N", "o", "t", " ", "F", "o", "u", "n", "d", "]", " ", "m", "o", "d", "e", "l", "s", "/", "g", "e", "m", "i", "n", "i", "-", "p", "r", "o", " ", "i", "s", " ", "n", "o", "t", " ", "f", "o", "u", "n", "d", " ", "f", "o", "r", " ", "A", "P", "I", " ", "v", "e", "r", "s", "i", "o", "n", " ", "v", "1", "b", "e", "t", "a">>),
     Thrown(<<"[", "4", "0", "0", " ", "B", "a", "d", " ", "R", "e", "q", "u", "e", "s", "t", "]", " ", "A", "P", "I", " ", "k", "e", "y", " ", "n", "o", "t", " ", "v", "a", "l", "i", "d", ".", " ", "P", "l", "e", "a", "s", "e", " ", "p", "a", "s", "s", " ", "a", " ", "v", "a", "l", "i", "d", " ", "A", "P", "I", " ", "k", "e", "y", ".">>)}

ScenarioQuizzes ==
    QuizAnswers \cup
    {Returned(<<"{", "\"", "q", "u", "i", "z", "\"", ":", "[", "]", "}">>),
     Returned(<<"S", "o", "r", "r", "y", ",", " ", "n", "o", " ", "q", "u", "i", "z", ".">>)}

\* The model's answers to the title prompt: also an empty and a blank one.
ScenarioTitles == TitleAnswers \cup {Returned(<<>>), Returned(<<" ", " ">>)}

ScenarioModes ==
    {Undefined, Str(<<"d", "e", "v", "e", "l", "o", "p", "m", "e", "n", "t">>), Str(<<"p", "r", "o", "d", "u", "c", "t", "i", "o", "n">>), Str(<<"t", "e", "s", "t">>)}

\* The request arrives just after the entries set when the server started
\* have expired.
ArrivalTime == DEFAULT_TTL * 1000 + 1

StoredEnvelope == [type |-> "object", title |-> Str(<<"A">>)]

OtherKey == <<"a", "b", "c", "1", "2", "3">>

\* The cache keys the bodies of the scenarios have.
ScenarioKeys == {BareId.s} \cup {TranscriptKey(transcript).s : transcript \in PastedTranscripts}

\* A cache in which every key of a scenario has an entry set at time 0,
\* expired and not swept, and another key has an entry set just now.
StaleStore ==
    [k \in ScenarioKeys \cup {OtherKey} |->
        IF k = OtherKey THEN Wrap(StoredEnvelope, DEFAULT_TTL, ArrivalTime)
        ELSE Wrap(StoredEnvelope, DEFAULT_TTL, 0)]

\* What the cache holds when the request arrives.
ScenarioStores == {NoData, StaleStore}

Scenarios ==
    [path : {"video"}, body : ScenarioUrls, fetched : ScenarioFetches,
     summary : ScenarioSummaries, keyPoints : KeyPointsAnswers,
     quiz : ScenarioQuizzes, title : ScenarioTitles, stored : ScenarioStores]
    \cup
    [path : {"transcript"}, body : ScenarioTranscripts, fetched : {Null},
     summary : ScenarioSummaries, keyPoints : KeyPointsAnswers,
     quiz : ScenarioQuizzes, title : ScenarioTitles, stored : ScenarioStores]

RequestInit ==
    /\ env \in [CACHE_TTL : {Undefined}, GEMINI_API_KEY : ServerKeySettings, NODE_ENV : ScenarioModes]
    /\ model = Null
    /\ now = ArrivalTime
    /\ nextCheck = (ArrivalTime \div (CHECK_PERIOD * 1000) + 1) * CHECK_PERIOD * 1000
    /\ fnPc = "off"
    /\ fnArg \in Scenarios
    /\ cache = fnArg.stored
    /\ fnRes = Null
    /\ req = [r \in Slots |-> Idle]
    /\ received = 0
    /\ cacheOp = [op |-> "none"]

\* What the three generations of the scenario settle as.
ScenarioGenerated == Generated(fnArg.summary, fnArg.keyPoints, fnArg.quiz)

RequestNext ==
    \/ fnArg.path = "video" /\ PostProcess(1, {VideoRequest(fnArg.body)})
    \/ fnArg.path = "transcript" /\ PostProcessTranscript(1, {TranscriptRequest(fnArg.body)})
    \/ FetchSettles(1, {getTranscript(fnArg.fetched)})
    \/ GenerationSettles(1, {ScenarioGenerated})
    \/ TitleSettles(1, {extractTitle(fnArg.title)})

SpecRequest == RequestInit /\ [][RequestNext]_vars

\* The request of the scenario has been answered after its transcript could
\* not be acquired: getTranscript threw.
FetchFailed ==
    /\ req[1].pc = "done"
    /\ req[1].calls = [NoCalls EXCEPT !.fetch = 1]
    /\ ~getTranscript(fnArg.fetched).ok

\* C14: when getTranscript fails because captions are disabled or because
\* the video or its transcript is not found, the request is answered 404
\* with the classified message.
C14_AcquisitionFailureIs404 ==
    (FetchFailed /\ getTranscript(fnArg.fetched).error.message
                        \in {MsgTranscriptsDisabled, MsgVideoNotFound})
        => /\ req[1].res.status = 404
           /\ req[1].res.json.error = getTranscript(fnArg.fetched).error.message

\* The request of the scenario has been answered after AIService threw:
\* initialize found no key (one call), or a generation failed (four calls).
AiFailed == req[1].pc = "done" /\ req[1].calls.ai \in {1, 4}

\* The messages of the errors AIService.processTranscript can have thrown
\* for the request.
RaisedByAi ==
    IF req[1].calls.ai = 1 THEN {MsgKeyNotSet}
    ELSE {ClassifyAiError(error).error.message : error \in Rejections(ScenarioGenerated)}

\* The answer the claim gives the failure class of message.
AnsweredAsClaimed(message, res) ==
    /\ message = MsgQuota => res.status = 429
    /\ message = MsgModelUnavailable => res.status = 503
    /\ message \in {MsgKeyNotSet, MsgInvalidKey}
           => res.status = 500 /\ res.json.error = MsgConfiguration
    /\ res.status \notin {400, 404}

\* C15: a failure of AIService.processTranscript is answered by its class:
\* quota 429, model unavailable 503, missing or rejected key 500 with the
\* configuration message, and never 400 or 404.
C15_AiFailureByClass ==
    AiFailed =>
        \E message \in RaisedByAi :
            /\ req[1].res = errorHandler([message |-> message], env.NODE_ENV)
            /\ AnsweredAsClaimed(message, req[1].res)

\* C16: a response of errorHandler is {success: false, error: <string>},
\* with the raw details (stack, details) whenever NODE_ENV is not
\* 'production', unset included, and without them in production.
C16_DetailsOutsideProduction ==
    (FetchFailed \/ AiFailed) =>
        /\ req[1].res.json.success = FALSE
        /\ req[1].res.json.error \in Seq(STRING)
        /\ ({"stack", "details"} \subseteq DOMAIN req[1].res.json)
               <=> (env.NODE_ENV # Str(<<"p", "r", "o", "d", "u", "c", "t", "i", "o", "n">>))
        /\ DOMAIN req[1].res.json \subseteq {"success", "error", "stack", "details"}

\* C17: a request to /api/process whose videoUrl is a bare 11-character
\* identifier passes the middleware and is processed under that identifier
\* as its cache key.
C17_BareIdAccepted ==
    (fnArg.path = "video" /\ fnArg.body = BareId /\ req[1].pc # "idle")
        => /\ req[1].key = BareId
           /\ req[1].pc = "done" => req[1].res.status # 400

\* The provider answers the scenario's fetch with no transcript text: no
\* segments, or segments that clean to nothing.
NoTranscriptText ==
    /\ fnArg.path = "video"
    /\ fnArg.fetched.ok
    /\ \/ Falsy(fnArg.fetched.v)
       \/ Len(fnArg.fetched.v.items) = 0
       \/ cleanTranscript(JoinTexts(fnArg.fetched.v.items)) = <<>>

\* Every entry the cache holds is one it held when the request arrived.
NothingWritten ==
    \A k \in DOMAIN cache : k \in DOMAIN fnArg.stored /\ cache[k] = fnArg.stored[k]

\* C18: a video request that missed the cache and got no transcript text is
\* answered 404, without a call of the AI client and without a cache write.
C18_NoTranscriptIs404 ==
    (req[1].pc = "done" /\ req[1].calls.fetch = 1 /\ NoTranscriptText)
        => /\ req[1].res.status = 404
           /\ req[1].res.json.success = FALSE
           /\ req[1].calls.ai = 0
           /\ req[1].calls.cacheSet = 0
           /\ model = Null
           /\ NothingWritten

\* A video whose only segment cleans to nothing has been answered.
C18_Witness ==
    /\ req[1].pc = "done"
    /\ req[1].calls.fetch = 1
    /\ NoTranscriptText
    /\ ~Falsy(env.GEMINI_API_KEY)
    /\ ~Falsy(fnArg.fetched.v)
    /\ Len(fnArg.fetched.v.items) = 1
    /\ req[1].res.json.error = MsgNoTranscript

\* The request of the scenario has been answered, and not with a success.
Failed == req[1].pc = "done" /\ req[1].res.status # 200

\* The request wrote nothing to the cache and made each call at most once:
\* one fetch, one initialize and one call of each of the three generations.
NoRetry ==
    /\ req[1].calls.cacheSet = 0
    /\ req[1].calls.fetch <= 1
    /\ req[1].calls.ai \in {0, 1, 4}

\* C19 as stated: a request that does not end in a success leaves the cache
\* exactly as it was and makes no call twice.
C19_FailureLeavesCache ==
    Failed => cache = fnArg.stored /\ NoRetry

\* C19: a request that does not end in a success creates and overwrites no
\* entry and removes no unexpired one (its lookup deletes an expired entry
\* of its own key), and makes no call twice.
C19_FailureLeavesLiveEntries ==
    Failed =>
        /\ NothingWritten
        /\ \A k \in DOMAIN fnArg.stored \ DOMAIN cache :
               Str(k) = req[1].key /\ Expired(fnArg.stored[k], ArrivalTime)
        /\ NoRetry

\* A request whose generation failed has been answered; its lookup deleted
\* the expired entry of its key and the entry of the other key is held.
C19_Witness ==
    /\ Failed
    /\ req[1].calls.ai = 4
    /\ fnArg.stored = StaleStore
    /\ req[1].key.s \notin DOMAIN cache
    /\ OtherKey \in DOMAIN cache

\* The title the claim gives the scenario's request: the model's trimmed
\* answer, the default of the path when that is empty, 'Educational Video'
\* when the call threw.
ClaimedTitle ==
    IF ~fnArg.title.ok THEN DefaultTitle
    ELSE IF Trim(fnArg.title.v) # <<>> THEN Trim(fnArg.title.v)
    ELSE IF fnArg.path = "video" THEN DefaultTitle
    ELSE CustomTitle

\* C23: the title is asked for only after the three generations have
\* succeeded; a request that has asked for it is answered with a success
\* whatever the title call does, with the claimed title; and no envelope
\* returned or cached has an empty title.
C23_TitleNeverFails ==
    /\ req[1].pc # "idle" /\ req[1].calls.ai = 5 => Rejections(ScenarioGenerated) = {}
    /\ (req[1].pc = "done" /\ req[1].calls.ai = 5) =>
           /\ req[1].res.status = 200
           /\ req[1].res.json.success = TRUE
           /\ req[1].res.json.data.title = Str(ClaimedTitle)
           /\ req[1].res.json.data.title.s # <<>>
           /\ cache[req[1].key.s].v = req[1].res.json.data
    /\ \A k \in DOMAIN cache : cache[k].v.title.s # <<>>

\* A pasted transcript whose title call threw has been answered with
\* 'Educational Video'.
C23_Witness ==
    /\ req[1].pc = "done"
    /\ req[1].calls.ai = 5
    /\ fnArg.path = "transcript"
    /\ ~fnArg.title.ok
    /\ req[1].res.json.data.title = Str(DefaultTitle)

\* Slot r receives a request in this step, and the controller computes its
\* cache key.
Looks(r) == req[r].pc = "idle" /\ req'[r].pc # "idle" /\ ~Falsy(req'[r].key)

\* The cache holds an entry under the key of r that has not expired: the
\* ttl has not elapsed since it was set.
LiveEntry(r) ==
    /\ req'[r].key.s \in DOMAIN cache
    /\ now <= cache[req'[r].key.s].t

\* The cache holds an entry under the key of r, set longer ago than the ttl
\* (the result's generatedAt is the time it was set at).
StaleEntry(r) ==
    /\ req'[r].key.s \in DOMAIN cache
    /\ now - cache[req'[r].key.s].v.metadata.generatedAt > TtlMs

\* The request has been answered with success, cached as given.
AnsweredCached(q, cached) ==
    q.pc = "done" /\ q.res.status = 200 /\ q.res.json.cached = cached

\* C1: a request of either path whose key has a live entry in the cache is
\* answered at once with success, cached: true and the stored envelope as
\* data, having made no call to getTranscript, to AIService or to
\* CacheManager.set, and the cache is left as it was.
C1_HitAnswersFromCache ==
    [][\A r \in Slots :
        (Looks(r) /\ LiveEntry(r))
        => /\ req'[r] = Done(req'[r].path, req'[r].key, NoCalls,
                             Success(cache[req'[r].key.s].v, TRUE))
           /\ cache' = cache]_vars

\* A request of the video path answered from the cache with the envelope
\* the other request, made through another link to the same video, was
\* answered with after generating it.
C1_Witness ==
    \E r, o \in Slots :
        /\ AnsweredCached(req[r], TRUE)
        /\ req[r].path = "video"
        /\ req[r].calls = NoCalls
        /\ AnsweredCached(req[o], FALSE)
        /\ req[o].key = req[r].key
        /\ req[o].res.json.data = req[r].res.json.data

\* C3: once more than the ttl has passed since a key was set, a request for
\* that key finds nothing in the cache, whether or not the check timer has
\* removed the entry: the expired entry is gone after the lookup and the
\* request goes on as a miss, to fetch the transcript or to generate.
C3_ExpiredEntryIsAMiss ==
    [][\A r \in Slots :
        (Looks(r) /\ StaleEntry(r))
        => /\ req'[r].key.s \notin DOMAIN cache'
           /\ req'[r].pc = (IF req'[r].path = "video" THEN "fetching" ELSE "generating")
           /\ req'[r].calls # NoCalls]_vars

\* A request that was answered after generation, and a later one for the
\* same key that started after the ttl had passed and is generating again,
\* the check timer never having fired.
C3_Witness ==
    \E r, o \in Slots :
        /\ AnsweredCached(req[o], FALSE)
        /\ req[r].pc \in {"generating", "titling"}
        /\ req[r].key = req[o].key
        /\ req[r].startTime - req[o].res.json.data.metadata.generatedAt > TtlMs
        /\ nextCheck = CHECK_PERIOD * 1000

\* C8: a request answered after a miss has made its calls in order and has
\* called CacheManager.set once, and as long as the ttl has not passed the
\* cache holds, under its key, the envelope it was answered with, so that
\* the next request for the key is answered with that envelope.
C8_CachedIsReturned ==
    \A r \in Slots :
        AnsweredCached(req[r], FALSE)
        => /\ req[r].calls = [fetch |-> IF req[r].path = "video" THEN 1 ELSE 0,
                              ai |-> 5, cacheSet |-> 1]
           /\ (now - req[r].res.json.data.metadata.generatedAt <= TtlMs
               => /\ req[r].key.s \in DOMAIN cache
                  /\ cache[req[r].key.s].v = req[r].res.json.data)

\* C9: an entry of the cache that has not expired is still there after any
\* step, with the envelope and the expiry time it had.
C9_EntryReadOnly ==
    [][\A k \in DOMAIN cache :
        now <= cache[k].t => (k \in DOMAIN cache' /\ cache'[k] = cache[k])]_vars

\* C10: a request that finds no live entry under its key goes on to fetch
\* or to generate even when another request for the same key is in flight:
\* nothing makes it wait for, or share, the other's result.
C10_NoDeduplication ==
    [][\A r, o \in Slots :
        (/\ Looks(r)
         /\ ~LiveEntry(r)
         /\ req[o].pc \in {"fetching", "generating", "titling"}
         /\ req[o].key = req'[r].key)
        => /\ req'[r].pc = (IF req'[r].path = "video" THEN "fetching" ELSE "generating")
           /\ req'[o] = req[o]]_vars

\* Two requests for the same key, both answered with cached: false after
\* both had been generating at the same time: the one answered first was
\* answered after the other had started.
C10_Witness ==
    \E r, o \in Slots :
        /\ r # o
        /\ AnsweredCached(req[r], FALSE)
        /\ AnsweredCached(req[o], FALSE)
        /\ req[r].key = req[o].key
        /\ req[r].calls.ai = 5
        /\ req[o].calls.ai = 5
        /\ req[r].res.json.data.metadata.generatedAt
               - req[r].res.json.data.metadata.processingTime
           <= req[o].res.json.data.metadata.generatedAt
        /\ req[o].res.json.data.metadata.generatedAt
               - req[o].res.json.data.metadata.processingTime
           <= req[r].res.json.data.metadata.generatedAt

\* A key of processVideo: 11 characters of an identifier.
IsVideoKey(k) == Len(k) = ID_LENGTH /\ \A i \in 1..Len(k) : k[i] \in IdChars

\* A key of processTranscript: 'transcript_' and at least one base-36 digit.
IsTranscriptKey(k) ==
    /\ Len(k) > Len(TranscriptKeyPrefix)
    /\ SubSeq(k, 1, Len(TranscriptKeyPrefix)) = TranscriptKeyPrefix
    /\ \A i \in (Len(TranscriptKeyPrefix) + 1)..Len(k) :
           \E d \in 1..Len(Base36Digits) : k[i] = Base36Digits[d]

\* The envelope was built by processVideo (it has a videoId), or by
\* processTranscript.
BuiltBy(envelope) == IF "videoId" \in DOMAIN envelope THEN "video" ELSE "transcript"

\* C22: a key of processVideo is 11 identifier characters, a key of
\* processTranscript is 'transcript_' and a non-empty base-36 hash, no key
\* is both, every entry is stored under a key of the path that built it,
\* and a request is answered from the cache only with an envelope of its
\* own path.
C22_KeysNeverCollide ==
    /\ \A r \in Slots : (req[r].pc # "idle" /\ ~Falsy(req[r].key)) =>
           /\ req[r].path = "video" => IsVideoKey(req[r].key.s)
           /\ req[r].path = "transcript" => IsTranscriptKey(req[r].key.s)
           /\ ~(IsVideoKey(req[r].key.s) /\ IsTranscriptKey(req[r].key.s))
    /\ \A k \in DOMAIN cache :
           IF BuiltBy(cache[k].v) = "video"
           THEN IsVideoKey(k) /\ ~IsTranscriptKey(k)
           ELSE IsTranscriptKey(k) /\ ~IsVideoKey(k)
    /\ \A r \in Slots : AnsweredCached(req[r], TRUE) =>
           BuiltBy(req[r].res.json.data) = req[r].path

\* The cache holds an entry of each path.
C22_Witness ==
    /\ \E k \in DOMAIN cache : IsVideoKey(k) /\ BuiltBy(cache[k].v) = "video"
    /\ \E k \in DOMAIN cache : IsTranscriptKey(k) /\ BuiltBy(cache[k].v) = "transcript"

(***************************************************************************)
(* Harness for CacheManager: set, get, delete and clear called directly    *)
(***************************************************************************)

CacheTtlSettings == {Undefined, Str(<<"9", "0", "0">>), Str(<<"0">>), Str(<<"1", "h">>)}

TestKeys == {<<"a", "b", "c", "1", "2", "3">>, <<"x", "y", "z", "7", "8", "9">>}

TestEnvelopes ==
    {[type |-> "object", title |-> Str(<<"A">>)], [type |-> "object", title |-> Str(<<"B">>)]}

CacheInit ==
    /\ ServerInit(CacheTtlSettings, {Undefined}, {Undefined})
    /\ req = <<>>
    /\ received = 0
    /\ cacheOp = [op |-> "none"]

\* A call as the next one remembers it.
Earlier(call) == [f \in DOMAIN call \ {"prev"} |-> call[f]]

CacheSetCall ==
    /\ \E k \in TestKeys, v \in TestEnvelopes :
        /\ cache' = CacheManagerSet(cache, k, v, stdTTL(env), now).data
        /\ cacheOp' = [op |-> "set", key |-> k, value |-> v, at |-> now,
                       ret |-> CacheManagerSet(cache, k, v, stdTTL(env), now).ret]
    /\ UNCHANGED <<fnVars, env, model, now, nextCheck, req, received>>

CacheGetCall ==
    /\ \E k \in TestKeys :
        /\ cache' = CacheManagerGet(cache, k, now).data
        /\ cacheOp' = [op |-> "get", key |-> k, at |-> now,
                       ret |-> CacheManagerGet(cache, k, now).ret,
                       prev |-> Earlier(cacheOp)]
    /\ UNCHANGED <<fnVars, env, model, now, nextCheck, req, received>>

CacheDeleteCall ==
    /\ \E k \in TestKeys :
        /\ cache' = CacheManagerDelete(cache, k).data
        /\ cacheOp' = [op |-> "delete", key |-> k, at |-> now,
                       ret |-> CacheManagerDelete(cache, k).ret]
    /\ UNCHANGED <<fnVars, env, model, now, nextCheck, req, received>>

CacheClearCall ==
    /\ cache' = CacheManagerClear(now).data
    /\ nextCheck' = CacheManagerClear(now).nextCheck
    /\ cacheOp' = [op |-> "clear", at |-> now]
    /\ UNCHANGED <<fnVars, env, model, now, req, received>>

CacheNext ==
    \/ CacheSetCall
    \/ CacheGetCall
    \/ CacheDeleteCall
    \/ CacheClearCall
    \/ Tick
    \/ Sweep

SpecCache == CacheInit /\ [][CacheNext]_vars

\* C2: a get that comes right after a set of the same key, with the ttl not
\* elapsed between the two, returns the very envelope that was set,
\* whatever was set, deleted or expired before.
C2_SetThenGet ==
    (/\ cacheOp.op = "get"
     /\ cacheOp.prev.op = "set"
     /\ cacheOp.prev.key = cacheOp.key
     /\ cacheOp.at - cacheOp.prev.at <= TtlMs)
    => cacheOp.ret = cacheOp.prev.value

\* A get right after a set, made when the ttl had nearly elapsed and with
\* an expired entry under the other key.
C2_Witness ==
    /\ cacheOp.op = "get"
    /\ cacheOp.prev.op = "set"
    /\ cacheOp.prev.key = cacheOp.key
    /\ cacheOp.at - cacheOp.prev.at = TtlMs
    /\ cacheOp.ret = cacheOp.prev.value
    /\ \E k \in DOMAIN cache : k # cacheOp.key /\ Expired(cache[k], now)

====
